---- MODULE Spec2Model ----
(***************************************************************************)
(* Test Selection Engine of tools/unified_pr_test_selector.py:             *)
(*   Change Classifier   TagBasedSelector.map_files_to_tags                *)
(*   Priority Selector   TagBasedSelector.select_tests_by_tags             *)
(*   Batch Merger        the merge loop of run_multiple_prs                *)
(*   Tag Set Optimizer   UnifiedPRTestSelector._optimize_tags_for_jenkins  *)
(*   Trigger             UnifiedPRTestSelector._trigger_jenkins_job        *)
(*   Tag Index Builder   TestRepository.extract_test_tags                  *)
(*                                                                         *)
(* Each component has its own specification over the shared variables:     *)
(*   SpecClassify, SpecSelect, SpecMerge, SpecOptimize, SpecIndex, Spec    *)
(*   (one single-change run from classification to the trigger call) and   *)
(*   SpecRun (one process from main to its exit, single or batch, with     *)
(*   the clone directory, the report, the trigger call and their failures).*)
(*                                                                         *)
(* Strings are modelled at the granularity the code inspects them:         *)
(*   - a file path is a sequence of atoms ("agent/", "foo", ".go"); no     *)
(*     atom is a substring of another, so substring search, endswith and   *)
(*     re.search of the rule patterns become searches over atoms;          *)
(*   - a test name is the pair of its ticket prefix as spelled and its     *)
(*     ticket number; a tag is a string, a numeric tag a string of         *)
(*     digits.                                                             *)
(***************************************************************************)
EXTENDS Integers, Sequences, FiniteSets, TLC

VARIABLES
    phase,              \* which component is running and where it stands
    \* ---- Change Classifier (TagBasedSelector)
    mapping_rules,      \* self.mapping_rules: [path_to_tags, critical_patterns]
    changed_files,      \* the changed_files argument: sequence of paths
    tag_result,         \* the dict map_files_to_tags returns
    \* ---- Priority Selector (select_tests_by_tags)
    tags,               \* the tags argument (a set)
    tag_to_tests,       \* the tag_to_tests argument: tag -> list of test dicts
    is_critical,        \* the is_critical argument
    must_run,           \* local list must_run
    should_run,         \* local list should_run
    test_names_seen,    \* local set test_names_seen
    tag_pos,            \* position of the outer loop in sorted(tags)
    test_pos,           \* position of the inner loop in tag_to_tests[tag]
    \* ---- Batch Merger (run_multiple_prs)
    prs_results,        \* pr_tests_result of every change, in input order
    pr_pos,             \* position of the loop over prs_info
    all_must_run,       \* local list all_must_run
    all_should_run,     \* local list all_should_run
    batch_names_seen,   \* run_multiple_prs' local set test_names_seen
    all_selected_tests, \* all_must_run + all_should_run
    \* ---- Tag Set Optimizer and trigger
    component,          \* the component of the run
    selected_tests,     \* the selected_tests argument
    min_tests_per_tag,  \* the min_tests_per_tag argument
    optimized,          \* the optimizer's output tags, in output order
    tags_ginkgo,        \* the tag expression handed to the trigger call
    trigger_jenkins,    \* the trigger_jenkins argument of the run
    \* ---- main, run_single_pr, run_multiple_prs and the trigger step
    mode,               \* "single" (--pr) or "batch" (--prs)
    prs_info,           \* the pr_info of every change, in input order
    output_dir,         \* whether an output directory is given
    jenkins_url,        \* whether self.jenkins_url is configured
    jenkins_params,     \* the jenkins_params override, split at its commas
    work_dir,           \* the temporary directory of TestRepository
    repo_path,          \* whether the test repository has been cloned
    all_selected_tags,  \* run_multiple_prs' local set all_selected_tags
    report_file,        \* the report written to the output directory
    parameters,         \* the parameters of the trigger call made
    trigger_log,        \* the lines trigger_job has printed
    post_calls,         \* the number of requests.post calls made
    pending,            \* how the try block was left: return or exception
    error,              \* the exception raised, if any
    exit_status,        \* the exit status of the process
    \* ---- Tag Index Builder (TestRepository.extract_test_tags)
    test_files,         \* the files the glob of test_patterns returns
    file_pos,           \* position of the loop over test_files
    all_tags,           \* local set all_tags
    index_log           \* the files reported with "Error reading"

vars == << phase, mapping_rules, changed_files, tag_result, tags, tag_to_tests,
           is_critical, must_run, should_run, test_names_seen, tag_pos,
           test_pos, prs_results, pr_pos, all_must_run, all_should_run,
           batch_names_seen, all_selected_tests, component, selected_tests,
           min_tests_per_tag, optimized, tags_ginkgo, trigger_jenkins, mode,
           prs_info, output_dir, jenkins_url, jenkins_params, work_dir,
           repo_path, all_selected_tags, report_file, parameters, trigger_log,
           post_calls, pending, error, exit_status, test_files, file_pos,
           all_tags, index_log >>

classifyVars == << mapping_rules, changed_files, tag_result >>
selectVars   == << tags, tag_to_tests, is_critical, must_run, should_run,
                   test_names_seen, tag_pos, test_pos >>
mergeVars    == << prs_results, pr_pos, all_must_run, all_should_run,
                   batch_names_seen, all_selected_tests >>
optVars      == << component, selected_tests, min_tests_per_tag, optimized,
                   tags_ginkgo, trigger_jenkins >>
runVars      == << mode, prs_info, output_dir, jenkins_url, jenkins_params,
                   work_dir, repo_path, all_selected_tags, report_file,
                   parameters, trigger_log, post_calls, pending, error,
                   exit_status >>
indexVars    == << test_files, file_pos, all_tags, index_log >>

(***************************************************************************)
(* Bounds of the model.                                                    *)
(***************************************************************************)
MaxFiles == 2       \* changed files of one change
MaxRules == 2       \* path_to_tags rules of one rule table
MaxIndexed == 3     \* test cases found by the Tag Index Builder (selector runs)
MaxPRs == 2         \* changes of one batch
NumNames == 2       \* distinct test names over the selections of one batch
NumOptTests == 3    \* test cases of the repository (optimizer runs)
MaxMinTests == 3    \* largest min_tests_per_tag tried (optimizer runs)
NumTests == 5       \* test cases of the repository (whole runs)
MaxTestFiles == 2   \* test files of the repository (index builder runs)

(***************************************************************************)
(* Generic helpers.                                                        *)
(***************************************************************************)
Range(s) == { s[i] : i \in 1..Len(s) }

SeqsUpTo(S, n) == UNION { [1..k -> S] : k \in 0..n }

\* list filtered by a set, order kept
RECURSIVE Filter(_, _)
Filter(s, S) ==
    IF s = << >> THEN << >>
    ELSE IF Head(s) \in S THEN << Head(s) >> \o Filter(Tail(s), S)
         ELSE Filter(Tail(s), S)

(***************************************************************************)
(* re.search(pattern, filename) for the patterns of FILE_TO_TAG_MAPPINGS:  *)
(* literal chunks separated by ".*", with an optional "$" at the end.      *)
(* A leading or trailing ".*" changes nothing under re.search.             *)
(***************************************************************************)
MatchAt(chunk, s, i) ==
    /\ i + Len(chunk) - 1 <= Len(s)
    /\ \A k \in 1..Len(chunk) : s[i + k - 1] = chunk[k]

RECURSIVE MatchChunks(_, _, _, _)
MatchChunks(chunks, anchored, s, from) ==
    IF chunks = << >> THEN TRUE
    ELSE \E i \in from..(Len(s) - Len(Head(chunks)) + 1) :
            /\ MatchAt(Head(chunks), s, i)
            /\ IF Len(chunks) = 1
               THEN anchored => (i + Len(Head(chunks)) - 1 = Len(s))
               ELSE MatchChunks(Tail(chunks), anchored, s,
                                i + Len(Head(chunks)))

re_search(pattern, filename) ==
    MatchChunks(pattern.chunks, pattern.anchored, filename, 1)

Pat(chunks, anchored) == [chunks |-> chunks, anchored |-> anchored]

(***************************************************************************)
(* Inputs of the Change Classifier: changed paths and rule tables.         *)
(***************************************************************************)
FilePool ==
    { << "README", ".md" >>,
      << "docs/", "notes", ".txt" >>,
      << "docs/", "gen", ".go" >>,
      << "agent/", "pkg/", "foo", ".go" >>,
      << "manager/", "migration", ".go" >>,
      << "pkg/", "migration", ".md" >> }

\* rules in the shape of FILE_TO_TAG_MAPPINGS[component]['path_to_tags'] items
RulePool ==
    { [pattern |-> Pat(<< << "agent/" >> >>, FALSE),
       tags    |-> << "addon", "migration", "status" >>],
      [pattern |-> Pat(<< << "manager/" >> >>, FALSE),
       tags    |-> << "event", "kafka", "e2e" >>],
      [pattern |-> Pat(<< << ".md" >> >>, TRUE),
       tags    |-> << "status" >>],
      [pattern |-> Pat(<< << "docs/" >> >>, FALSE),
       tags    |-> << "e2e" >>],
      [pattern |-> Pat(<< << "pkg/" >>, << "migration" >> >>, FALSE),
       tags    |-> << "postgres", "migration" >>] }

CriticalPool ==
    { << >>,
      << Pat(<< << "migration" >> >>, FALSE) >>,
      << Pat(<< << "pkg/" >>, << "foo" >> >>, FALSE),
         Pat(<< << "docs/" >> >>, FALSE) >> }

\* a dict has one entry per key: the patterns of a rule table are distinct
RuleTables ==
    { t \in SeqsUpTo(RulePool, MaxRules) :
        \A i, j \in 1..Len(t) : t[i].pattern = t[j].pattern => i = j }

(***************************************************************************)
(* TagBasedSelector.is_docs_only_change                                    *)
(***************************************************************************)
endswith(filename, atom) ==
    Len(filename) > 0 /\ filename[Len(filename)] = atom

contains(filename, atom) == \E i \in 1..Len(filename) : filename[i] = atom

IsDocFile(filename) ==
    \/ endswith(filename, ".md")
    \/ endswith(filename, ".txt")
    \/ contains(filename, "docs/")

is_docs_only_change(files) ==
    IF files = << >> THEN FALSE
    ELSE \A i \in 1..Len(files) : IsDocFile(files[i])

(***************************************************************************)
(* TagBasedSelector.is_critical_change                                     *)
(***************************************************************************)
\* faulty variant of is_critical_change: only the first critical pattern is
\* tried on each file
is_critical_change_FirstPattern(rules, files) ==
    \E i \in 1..Len(files) :
        /\ rules.critical_patterns # << >>
        /\ re_search(rules.critical_patterns[1], files[i])

is_critical_change(rules, files) ==
    \E i \in 1..Len(files) :
        \E j \in 1..Len(rules.critical_patterns) :
            re_search(rules.critical_patterns[j], files[i])

(***************************************************************************)
(* TagBasedSelector.map_files_to_tags                                      *)
(***************************************************************************)
\* faulty variant of FileTags: the rule loop stops at the first matching rule
RECURSIVE FileTags_FirstMatch(_, _)
FileTags_FirstMatch(path_to_tags, filename) ==
    IF path_to_tags = << >> THEN {}
    ELSE IF re_search(Head(path_to_tags).pattern, filename)
         THEN Range(Head(path_to_tags).tags)
         ELSE FileTags_FirstMatch(Tail(path_to_tags), filename)

\* file_tags of one file after "for pattern, tags in path_to_tags.items()":
\* file_tags.update(tags) for every rule whose pattern matches
RECURSIVE FileTags(_, _)
FileTags(path_to_tags, filename) ==
    IF path_to_tags = << >> THEN {}
    ELSE LET rest == FileTags(Tail(path_to_tags), filename)
         IN  IF re_search(Head(path_to_tags).pattern, filename)
             THEN Range(Head(path_to_tags).tags) \cup rest
             ELSE rest

\* matched_tags after "for file_info in changed_files":
\* matched_tags.update(file_tags) for every file with file_tags
RECURSIVE MatchedTags(_, _)
MatchedTags(path_to_tags, files) ==
    IF files = << >> THEN {}
    ELSE LET file_tags == FileTags(path_to_tags, Head(files))
             rest      == MatchedTags(path_to_tags, Tail(files))
         IN  IF file_tags # {} THEN file_tags \cup rest ELSE rest

\* faulty variant of RemoveE2E: the tag is kept
RemoveE2E_Kept(matched) == matched

\* the removal of the run-everything tag
RemoveE2E(matched) == matched \ { "e2e" }

\* faulty variant of map_files_to_tags: no early return for a docs-only change
map_files_to_tags_NoEarlyReturn(rules, files) ==
    [tags         |-> RemoveE2E(MatchedTags(rules.path_to_tags, files)),
     is_critical  |-> is_critical_change(rules, files),
     is_docs_only |-> is_docs_only_change(files)]

map_files_to_tags(rules, files) ==
    LET docs == is_docs_only_change(files)
        crit == is_critical_change(rules, files)
    IN  IF docs
        THEN [tags |-> {}, is_critical |-> FALSE, is_docs_only |-> TRUE]
        ELSE [tags         |-> RemoveE2E(MatchedTags(rules.path_to_tags, files)),
              is_critical  |-> crit,
              is_docs_only |-> docs]

(***************************************************************************)
(* Tags and test cases.                                                    *)
(***************************************************************************)
\* the numeric (ticket number) tags, in numeric order
Digits == << "1", "2", "3", "4", "5", "6", "7", "8", "9" >>

NumTag(n) == Digits[n]

\* str.isdigit on a tag
isdigit(t) == \E n \in 1..Len(Digits) : Digits[n] = t

\* every tag of the model in the order Python's sorted() gives strings
TagOrder ==
    Digits \o << "addon", "api", "e2e", "event", "ghost", "kafka", "migration",
                 "policyset", "postgres", "status", "zstream" >>

\* sorted(tags) for a set of tags
sorted(S) == Filter(TagOrder, S)

\* a test name: the ticket prefix as spelled in the test file and the ticket
\* number; "RHACM4K-7: ..." and "rhacm4k-7: ..." are different names
TestName(prefix, n) == [prefix |-> prefix, number |-> NumTag(n)]

\* the test_info dict built by _extract_tags_from_file
TestInfo(name, suite, taglist) ==
    [name |-> name, suite |-> suite, tags |-> taglist]

(***************************************************************************)
(* TestRepository._extract_tags_from_file, the index update: every test    *)
(* found is appended to the list of each tag of its tag list.              *)
(***************************************************************************)
RECURSIVE AppendUnderTags(_, _, _)
AppendUnderTags(index, test, taglist) ==
    IF taglist = << >> THEN index
    ELSE LET tag  == Head(taglist)
             idx1 == IF tag \in DOMAIN index
                     THEN [index EXCEPT ![tag] = Append(@, test)]
                     ELSE index @@ (tag :> << test >>)
         IN  AppendUnderTags(idx1, test, Tail(taglist))

RECURSIVE BuildIndex(_, _)
BuildIndex(index, tests) ==
    IF tests = << >> THEN index
    ELSE BuildIndex(AppendUnderTags(index, Head(tests), Head(tests).tags),
                    Tail(tests))

EmptyIndex == [t \in {} |-> << >>]

(***************************************************************************)
(* TagBasedSelector.select_tests_by_tags: one iteration of the inner loop  *)
(* "for test in tests" under tag `tag`.  st holds the locals must_run,     *)
(* should_run and test_names_seen.                                         *)
(***************************************************************************)
\* faulty variant of FirstSeen: a critical change is scored like any other
FirstSeen_NoCritical(st, tag, test, tagset, crit) ==
    [st EXCEPT
        !.seen = @ \cup { test.name },
        !.must_run = Append(@, [name         |-> test.name,
                                suite        |-> test.suite,
                                tags         |-> test.tags,
                                matched_tags |-> << tag >>,
                                match_score  |-> 3,
                                priority     |-> "must_run"])]

\* faulty variant of FirstSeen: the test "tag in tags" fails for a tag of the
\* loop, so a non-critical first sighting lands in should_run
FirstSeen_IndirectMatch(st, tag, test, tagset, crit) ==
    IF crit
    THEN [st EXCEPT
            !.seen = @ \cup { test.name },
            !.must_run = Append(@, [name         |-> test.name,
                                    suite        |-> test.suite,
                                    tags         |-> test.tags,
                                    matched_tags |-> << tag >>,
                                    match_score  |-> 10,
                                    priority     |-> "must_run"])]
    ELSE [st EXCEPT
            !.seen = @ \cup { test.name },
            !.should_run = Append(@, [name         |-> test.name,
                                      suite        |-> test.suite,
                                      tags         |-> test.tags,
                                      matched_tags |-> << tag >>,
                                      match_score  |-> 1,
                                      priority     |-> "should_run"])]

\* the branch "test['name'] not in test_names_seen"
FirstSeen(st, tag, test, tagset, crit) ==
    LET test_copy == [name         |-> test.name,
                      suite        |-> test.suite,
                      tags         |-> test.tags,
                      matched_tags |-> << tag >>,
                      match_score  |-> 0,
                      priority     |-> "none"]
    IN  IF crit
        THEN [st EXCEPT
                !.seen = @ \cup { test.name },
                !.must_run = Append(@, [test_copy EXCEPT
                                          !.priority = "must_run",
                                          !.match_score = 10])]
        ELSE IF tag \in tagset
        THEN [st EXCEPT
                !.seen = @ \cup { test.name },
                !.must_run = Append(@, [test_copy EXCEPT
                                          !.priority = "must_run",
                                          !.match_score = 3])]
        ELSE [st EXCEPT
                !.seen = @ \cup { test.name },
                !.should_run = Append(@, [test_copy EXCEPT
                                            !.priority = "should_run",
                                            !.match_score = 1])]

\* list.remove(x): drops the first element equal to x
RemoveFirst(s, x) ==
    IF \E i \in 1..Len(s) : s[i] = x
    THEN LET k == CHOOSE i \in 1..Len(s) :
                    s[i] = x /\ \A j \in 1..(i - 1) : s[j] # x
         IN  SubSeq(s, 1, k - 1) \o SubSeq(s, k + 1, Len(s))
    ELSE s

\* the promotion of an updated entry: its priority after the update step
PromotedPriority(entry) == "must_run"

\* faulty variant of BumpScore: the score is set, not incremented
BumpScore_Set(score) == 1

\* the score of an entry seen again
BumpScore(score) == score + 1

\* the branch "test already selected": the first entry of must_run +
\* should_run with this name gets the tag and one more point, and moves to
\* must_run if it sits in should_run with a score of 2 or more
SeenAgain(st, tag, test) ==
    LET both == st.must_run \o st.should_run
        hits == { i \in 1..Len(both) : both[i].name = test.name }
    IN  IF hits = {} THEN st
        ELSE
        LET k       == CHOOSE i \in hits : \A j \in hits : i <= j
            nm      == Len(st.must_run)
            upd     == [both[k] EXCEPT
                          !.matched_tags = Append(@, tag),
                          !.match_score = BumpScore(@)]
            must1   == IF k <= nm THEN [st.must_run EXCEPT ![k] = upd]
                       ELSE st.must_run
            should1 == IF k > nm THEN [st.should_run EXCEPT ![k - nm] = upd]
                       ELSE st.should_run
            promote == /\ upd.match_score >= 2
                       /\ \E j \in 1..Len(should1) : should1[j] = upd
        IN  IF promote
            THEN [st EXCEPT
                    !.should_run = RemoveFirst(should1, upd),
                    !.must_run = Append(must1,
                        [upd EXCEPT !.priority = PromotedPriority(upd)])]
            ELSE [st EXCEPT !.must_run = must1, !.should_run = should1]

\* faulty variant of SelectIter: no check of test_names_seen
SelectIter_NoSeenCheck(st, tag, test, tagset, crit) ==
    FirstSeen(st, tag, test, tagset, crit)

\* faulty variant of SelectIter: a test case counts as seen when a test case
\* of its suite was selected
SelectIter_SeenBySuite(st, tag, test, tagset, crit) ==
    IF \A i \in 1..Len(st.must_run) : st.must_run[i].suite # test.suite
    THEN FirstSeen(st, tag, test, tagset, crit)
    ELSE SeenAgain(st, tag, test)

SelectIter(st, tag, test, tagset, crit) ==
    IF test.name \notin st.seen
    THEN FirstSeen(st, tag, test, tagset, crit)
    ELSE SeenAgain(st, tag, test)

\* the whole inner loop over tag_to_tests[tag]
RECURSIVE SelectTests(_, _, _, _, _)
SelectTests(st, tag, tests, tagset, crit) ==
    IF tests = << >> THEN st
    ELSE SelectTests(SelectIter(st, tag, Head(tests), tagset, crit),
                     tag, Tail(tests), tagset, crit)

\* the outer loop "for tag in sorted(tags)"
RECURSIVE SelectTags(_, _, _, _, _)
SelectTags(st, taglist, index, tagset, crit) ==
    IF taglist = << >> THEN st
    ELSE LET tag == Head(taglist)
             st1 == IF tag \in DOMAIN index
                    THEN SelectTests(st, tag, index[tag], tagset, crit)
                    ELSE st
         IN  SelectTags(st1, Tail(taglist), index, tagset, crit)

SelectStart == [must_run |-> << >>, should_run |-> << >>, seen |-> {}]

\* select_tests_by_tags as a whole: the dict it returns
select_tests_by_tags(tagset, index, crit) ==
    LET st == SelectTags(SelectStart, sorted(tagset), index, tagset, crit)
    IN  [must_run |-> st.must_run, should_run |-> st.should_run]

(***************************************************************************)
(* run_multiple_prs, the merge of one change's pr_tests_result into the    *)
(* batch: must_run entries not seen yet go to all_must_run, then           *)
(* should_run entries not seen yet go to all_should_run.                   *)
(***************************************************************************)
\* faulty variant of NotSeen: no duplicate check
NotSeen_Always(name, seen) == TRUE

\* "if test['name'] not in test_names_seen": whether an entry is appended
NotSeen(name, seen) == name \notin seen

\* faulty variant of MergeBucket: the name is not added to test_names_seen
RECURSIVE MergeBucket_NoMark(_, _)
MergeBucket_NoMark(acc, tests) ==
    IF tests = << >> THEN acc
    ELSE LET test == Head(tests)
             acc1 == IF NotSeen(test.name, acc.seen)
                     THEN [bucket |-> Append(acc.bucket, test),
                           seen   |-> acc.seen]
                     ELSE acc
         IN  MergeBucket_NoMark(acc1, Tail(tests))

\* one "for test in ...: if not seen: seen.add; bucket.append" loop;
\* acc = [bucket, seen]
RECURSIVE MergeBucket(_, _)
MergeBucket(acc, tests) ==
    IF tests = << >> THEN acc
    ELSE LET test == Head(tests)
             acc1 == IF NotSeen(test.name, acc.seen)
                     THEN [bucket |-> Append(acc.bucket, test),
                           seen   |-> acc.seen \cup { test.name }]
                     ELSE acc
         IN  MergeBucket(acc1, Tail(tests))

\* faulty variant of MergePR: the should_run loop keeps a seen set of its own
MergePR_OwnSeen(m, result) ==
    LET a == MergeBucket([bucket |-> m.must, seen |-> m.seen],
                         result.must_run)
        b == MergeBucket([bucket |-> m.should,
                          seen   |-> { m.should[i].name : i \in 1..Len(m.should) }],
                         result.should_run)
    IN  [must |-> a.bucket, should |-> b.bucket, seen |-> a.seen \cup b.seen]

\* faulty variant of MergePR: the should_run loop appends to all_must_run
MergePR_OneBucket(m, result) ==
    LET a == MergeBucket([bucket |-> m.must, seen |-> m.seen],
                         result.must_run)
        b == MergeBucket([bucket |-> a.bucket, seen |-> a.seen],
                         result.should_run)
    IN  [must |-> b.bucket, should |-> m.should, seen |-> b.seen]

\* faulty variant of MergePR: the should_run loop is missing
MergePR_MustOnly(m, result) ==
    LET a == MergeBucket([bucket |-> m.must, seen |-> m.seen],
                         result.must_run)
    IN  [must |-> a.bucket, should |-> m.should, seen |-> a.seen]

\* both loops for one change; m = [must, should, seen]
MergePR(m, result) ==
    LET a == MergeBucket([bucket |-> m.must, seen |-> m.seen],
                         result.must_run)
        b == MergeBucket([bucket |-> m.should, seen |-> a.seen],
                         result.should_run)
    IN  [must |-> a.bucket, should |-> b.bucket, seen |-> b.seen]

MergeStart == [must |-> << >>, should |-> << >>, seen |-> {}]

RECURSIVE MergeAll(_, _)
MergeAll(m, results) ==
    IF results = << >> THEN m
    ELSE MergeAll(MergePR(m, Head(results)), Tail(results))

(***************************************************************************)
(* UnifiedPRTestSelector._optimize_tags_for_jenkins                        *)
(***************************************************************************)
NoNumber == "none"

\* re.search(r'RHACM4K-(\d+)', test['name']): case-sensitive
TicketNumber(name) ==
    IF name.prefix = "RHACM4K-" THEN name.number ELSE NoNumber

\* functional_tags = [t for t in all_tags if not t.isdigit()]
FunctionalTags(taglist) == Filter(taglist, { t \in Range(taglist) : ~isdigit(t) })

\* the first loop: cov = [keys, sets, numbers]
\*   keys    the keys of functional_tag_coverage in insertion order
\*   sets    functional_tag_coverage
\*   numbers the keys of test_to_functional_tags
RECURSIVE CoverTags(_, _, _)
CoverTags(cov, number, ftags) ==
    IF ftags = << >> THEN cov
    ELSE LET t == Head(ftags)
             c == IF t \in DOMAIN cov.sets
                  THEN [cov EXCEPT !.sets[t] = @ \cup { number }]
                  ELSE [cov EXCEPT !.keys = Append(@, t),
                                   !.sets = @ @@ (t :> { number })]
         IN  CoverTags(c, number, Tail(ftags))

RECURSIVE Coverage(_, _)
Coverage(cov, tests) ==
    IF tests = << >> THEN cov
    ELSE LET test   == Head(tests)
             number == TicketNumber(test.name)
             cov1   == IF number = NoNumber THEN cov
                       ELSE CoverTags([cov EXCEPT !.numbers = @ \cup { number }],
                                      number, FunctionalTags(test.tags))
         IN  Coverage(cov1, Tail(tests))

CoverageStart == [keys |-> << >>, sets |-> [t \in {} |-> {}], numbers |-> {}]

\* sorted(items, key=len of the set, reverse=True): a stable sort, so tags of
\* equal coverage stay in insertion order
RECURSIVE SortByCoverage(_, _)
SortByCoverage(keys, sets) ==
    IF keys = << >> THEN << >>
    ELSE LET k == CHOOSE i \in 1..Len(keys) :
                    /\ \A j \in 1..Len(keys) :
                          Cardinality(sets[keys[j]]) <= Cardinality(sets[keys[i]])
                    /\ \A j \in 1..(i - 1) :
                          Cardinality(sets[keys[j]]) < Cardinality(sets[keys[i]])
         IN  << keys[k] >> \o
             SortByCoverage(SubSeq(keys, 1, k - 1) \o SubSeq(keys, k + 1, Len(keys)),
                            sets)

\* the acceptance test of one functional tag
Accepts(test_numbers, covered, minTests) ==
    /\ Cardinality(test_numbers) >= minTests
    /\ Cardinality(test_numbers \ covered) >= minTests

\* the greedy loop: g = [tags, covered]
RECURSIVE Greedy(_, _, _, _)
Greedy(g, order, sets, minTests) ==
    IF order = << >> THEN g
    ELSE LET t  == Head(order)
             g1 == IF Accepts(sets[t], g.covered, minTests)
                   THEN [tags    |-> g.tags \cup { t },
                         covered |-> g.covered \cup sets[t]]
                   ELSE g
         IN  Greedy(g1, Tail(order), sets, minTests)

\* "Add individual test numbers for uncovered tests"
Uncovered(numbers, covered) == numbers \ covered

\* sorted(optimized_tags, key=(isdigit, int, x)): functional tags in string
\* order, then numeric tags in numeric order
SortForJenkins(S) ==
    Filter(TagOrder, { t \in S : ~isdigit(t) }) \o
    Filter(Digits, { t \in S : isdigit(t) })

\* one element of the joined expression: the text put before the tag, and
\* the tag
Tok(prefix, tag) == [prefix |-> prefix, tag |-> tag]

\* optimized_tags of the grc branch
OptimizedTagSet(tests, minTests) ==
    LET cov == Coverage(CoverageStart, tests)
        g   == Greedy([tags |-> {}, covered |-> {}],
                      SortByCoverage(cov.keys, cov.sets), cov.sets, minTests)
    IN  g.tags \cup Uncovered(cov.numbers, g.covered)

\* the expression returned: the list of its "||"-separated elements
optimize_tags_for_jenkins(tests, comp, minTests) ==
    IF tests = << >> THEN << >>
    ELSE IF comp = "grc"
    THEN LET out == SortForJenkins(OptimizedTagSet(tests, minTests))
         IN  [i \in 1..Len(out) |-> Tok("@", out[i])]
    ELSE LET mt  == UNION { Range(tests[i].matched_tags) : i \in 1..Len(tests) }
             out == sorted(mt)
         IN  [i \in 1..Len(out) |-> Tok("", out[i])]

\* the tags an expression names
ExprTags(expr) == { expr[i].tag : i \in 1..Len(expr) }

(***************************************************************************)
(* UnifiedPRTestSelector._trigger_jenkins_job: the value of tags_ginkgo    *)
(***************************************************************************)
DefaultMinTestsPerTag == 5

TagsGinkgo(comp, selTags, tests) ==
    IF comp = "grc" /\ tests # << >>
    THEN optimize_tags_for_jenkins(tests, comp, DefaultMinTestsPerTag)
    ELSE IF selTags # {}
    THEN LET out == sorted(selTags)
         IN  [i \in 1..Len(out) |-> Tok("", out[i])]
    ELSE << >>

\* the test names of a list of test dicts
Names(list) == { list[i].name : i \in 1..Len(list) }

\* the same, in list order
NameList(list) == [i \in 1..Len(list) |-> list[i].name]

(***************************************************************************)
(* Values of the variables a specification does not use.                   *)
(***************************************************************************)
NoTagResult == [tags |-> {}, is_critical |-> FALSE, is_docs_only |-> FALSE]

IdleClassify ==
    /\ mapping_rules = [path_to_tags |-> << >>, critical_patterns |-> << >>]
    /\ changed_files = << >>
    /\ tag_result = NoTagResult

IdleSelect ==
    /\ tags = {}
    /\ tag_to_tests = EmptyIndex
    /\ is_critical = FALSE
    /\ must_run = << >>
    /\ should_run = << >>
    /\ test_names_seen = {}
    /\ tag_pos = 1
    /\ test_pos = 1

IdleMerge ==
    /\ prs_results = << >>
    /\ pr_pos = 1
    /\ all_must_run = << >>
    /\ all_should_run = << >>
    /\ batch_names_seen = {}
    /\ all_selected_tests = << >>

IdleOpt ==
    /\ component = "none"
    /\ selected_tests = << >>
    /\ min_tests_per_tag = DefaultMinTestsPerTag
    /\ optimized = << >>
    /\ tags_ginkgo = << >>
    /\ trigger_jenkins = FALSE

IdleIndex ==
    /\ test_files = << >>
    /\ file_pos = 1
    /\ all_tags = {}
    /\ index_log = << >>

\* a dict with no key
EmptyDict == [k \in {} |-> << >>]

\* no report file in the output directory
NoReport ==
    [kind |-> "none", tags |-> {}, tests |-> << >>, jenkins_tags |-> << >>]

IdleRun ==
    /\ mode = "none"
    /\ prs_info = << >>
    /\ output_dir = FALSE
    /\ jenkins_url = FALSE
    /\ jenkins_params = << >>
    /\ work_dir = "none"
    /\ repo_path = FALSE
    /\ all_selected_tags = {}
    /\ report_file = NoReport
    /\ parameters = EmptyDict
    /\ trigger_log = << >>
    /\ post_calls = 0
    /\ pending = "none"
    /\ error = "none"
    /\ exit_status = -1

(***************************************************************************)
(* SpecClassify: the Change Classifier on every rule table and change of   *)
(* the bounds.                                                             *)
(***************************************************************************)
InitClassify ==
    /\ phase = "classify"
    /\ mapping_rules \in [path_to_tags : RuleTables,
                          critical_patterns : CriticalPool]
    /\ changed_files \in SeqsUpTo(FilePool, MaxFiles)
    /\ tag_result = NoTagResult
    /\ IdleSelect /\ IdleMerge /\ IdleOpt /\ IdleRun /\ IdleIndex

\* selector.map_files_to_tags(pr_info['changed_files'])
MapFilesToTags ==
    /\ phase = "classify"
    /\ tag_result' = map_files_to_tags(mapping_rules, changed_files)
    /\ phase' = "classified"
    /\ UNCHANGED << indexVars, runVars, mapping_rules, changed_files, selectVars, mergeVars, optVars >>

NextClassify == MapFilesToTags

SpecClassify == InitClassify /\ [][NextClassify]_vars

(***************************************************************************)
(* SpecSelect: one run of select_tests_by_tags, one loop iteration per     *)
(* step.                                                                   *)
(***************************************************************************)
Upper == "RHACM4K-"
Lower == "rhacm4k-"

\* test cases a test repository may declare; the last one declares the name
\* of the first again (a second describe block, or a second file)
SelectTestPool ==
    { TestInfo(TestName(Upper, 1), "s1", << "zstream", "api", "1" >>),
      TestInfo(TestName(Upper, 2), "s1", << "zstream", "2" >>),
      TestInfo(TestName(Upper, 3), "s1", << "api", "policyset", "3" >>),
      TestInfo(TestName(Upper, 1), "s2", << "zstream", "1" >>) }

\* tags a change may match; "ghost" is a tag no test case carries
SelectTagPool == { "zstream", "api", "policyset", "ghost" }

InitSelect ==
    /\ phase = "select"
    /\ tags \in SUBSET SelectTagPool
    /\ \E found \in SeqsUpTo(SelectTestPool, MaxIndexed) :
          tag_to_tests = BuildIndex(EmptyIndex, found)
    /\ is_critical \in BOOLEAN
    /\ must_run = << >>
    /\ should_run = << >>
    /\ test_names_seen = {}
    /\ tag_pos = 1
    /\ test_pos = 1
    /\ IdleClassify /\ IdleMerge /\ IdleOpt /\ IdleRun /\ IdleIndex

CurrentTag == sorted(tags)[tag_pos]

SelectLocals ==
    [must_run |-> must_run, should_run |-> should_run, seen |-> test_names_seen]

\* one iteration of "for test in tests"
SelectTest ==
    /\ phase = "select"
    /\ tag_pos <= Len(sorted(tags))
    /\ CurrentTag \in DOMAIN tag_to_tests
    /\ test_pos <= Len(tag_to_tests[CurrentTag])
    /\ LET st == SelectIter(SelectLocals, CurrentTag,
                            tag_to_tests[CurrentTag][test_pos], tags,
                            is_critical)
       IN  /\ must_run' = st.must_run
           /\ should_run' = st.should_run
           /\ test_names_seen' = st.seen
    /\ test_pos' = test_pos + 1
    /\ UNCHANGED << indexVars, runVars, phase, tags, tag_to_tests, is_critical, tag_pos,
                    classifyVars, mergeVars, optVars >>

\* the inner loop is over: the next tag of sorted(tags)
SelectNextTag ==
    /\ phase = "select"
    /\ tag_pos <= Len(sorted(tags))
    /\ CurrentTag \in DOMAIN tag_to_tests
    /\ test_pos > Len(tag_to_tests[CurrentTag])
    /\ tag_pos' = tag_pos + 1
    /\ test_pos' = 1
    /\ UNCHANGED << indexVars, runVars, phase, tags, tag_to_tests, is_critical, must_run,
                    should_run, test_names_seen,
                    classifyVars, mergeVars, optVars >>

\* "else: tag not found"
SelectTagNotFound ==
    /\ phase = "select"
    /\ tag_pos <= Len(sorted(tags))
    /\ CurrentTag \notin DOMAIN tag_to_tests
    /\ tag_pos' = tag_pos + 1
    /\ test_pos' = 1
    /\ UNCHANGED << indexVars, runVars, phase, tags, tag_to_tests, is_critical, must_run,
                    should_run, test_names_seen,
                    classifyVars, mergeVars, optVars >>

\* return {'must_run': must_run, 'should_run': should_run}
SelectReturn ==
    /\ phase = "select"
    /\ tag_pos > Len(sorted(tags))
    /\ phase' = "selected"
    /\ UNCHANGED << indexVars, runVars, selectVars, classifyVars, mergeVars, optVars >>

NextSelect ==
    \/ SelectTest
    \/ SelectNextTag
    \/ SelectTagNotFound
    \/ SelectReturn

SpecSelect == InitSelect /\ [][NextSelect]_vars

(***************************************************************************)
(* SpecMerge: the merge loop of run_multiple_prs over the selections of    *)
(* the changes of one batch, one change per step.  The selections are      *)
(* every Selection of the data model over NumNames test names (buckets     *)
(* disjoint, no name twice), not only those select_tests_by_tags returns   *)
(* today: the merge code reads both buckets of pr_tests_result.            *)
(***************************************************************************)
SelectionEntry(n, priority) ==
    [name         |-> TestName(Upper, n),
     suite        |-> "s1",
     tags         |-> << "zstream", NumTag(n) >>,
     matched_tags |-> << "zstream" >>,
     match_score  |-> IF priority = "must_run" THEN 3 ELSE 1,
     priority     |-> priority]

RECURSIVE EntriesOf(_, _, _)
EntriesOf(choice, priority, n) ==
    IF n > NumNames THEN << >>
    ELSE (IF choice[n] = priority THEN << SelectionEntry(n, priority) >>
          ELSE << >>) \o EntriesOf(choice, priority, n + 1)

SelectionPool ==
    { [must_run   |-> EntriesOf(choice, "must_run", 1),
       should_run |-> EntriesOf(choice, "should_run", 1)] :
        choice \in [1..NumNames -> { "absent", "must_run", "should_run" }] }

InitMerge ==
    /\ phase = "merge"
    /\ prs_results \in SeqsUpTo(SelectionPool, MaxPRs)
    /\ pr_pos = 1
    /\ all_must_run = << >>
    /\ all_should_run = << >>
    /\ batch_names_seen = {}
    /\ all_selected_tests = << >>
    /\ IdleClassify /\ IdleSelect /\ IdleOpt /\ IdleRun /\ IdleIndex

MergeLocals ==
    [must |-> all_must_run, should |-> all_should_run, seen |-> batch_names_seen]

\* the merge of the next change's pr_tests_result
MergeNextPR ==
    /\ phase = "merge"
    /\ pr_pos <= Len(prs_results)
    /\ LET m == MergePR(MergeLocals, prs_results[pr_pos])
       IN  /\ all_must_run' = m.must
           /\ all_should_run' = m.should
           /\ batch_names_seen' = m.seen
    /\ pr_pos' = pr_pos + 1
    /\ UNCHANGED << indexVars, runVars, phase, prs_results, all_selected_tests,
                    classifyVars, selectVars, optVars >>

\* all_selected_tests = all_must_run + all_should_run
MergeFinish ==
    /\ phase = "merge"
    /\ pr_pos > Len(prs_results)
    /\ all_selected_tests' = all_must_run \o all_should_run
    /\ phase' = "merged"
    /\ UNCHANGED << indexVars, runVars, prs_results, pr_pos, all_must_run, all_should_run,
                    batch_names_seen, classifyVars, selectVars, optVars >>

NextMerge ==
    \/ MergeNextPR
    \/ MergeFinish

SpecMerge == InitMerge /\ [][NextMerge]_vars

(***************************************************************************)
(* SpecOptimize: _optimize_tags_for_jenkins on the selection that          *)
(* select_tests_by_tags returns for a matched-tag set and a TagIndex of a  *)
(* component whose test files are in the tagged-block (.cy.js) dialect:    *)
(* the test names match RHACM4K-<n> in any case (re.IGNORECASE) and the    *)
(* ticket number is one of the tags.                                       *)
(***************************************************************************)
OptTestChoices(n) ==
    { TestInfo(TestName(Upper, n), "s1", << "zstream", NumTag(n) >>),
      TestInfo(TestName(Upper, n), "s1", << "zstream", "api", NumTag(n) >>),
      TestInfo(TestName(Upper, n), "s1", << "policyset", NumTag(n) >>),
      TestInfo(TestName(Lower, n), "s1", << "policyset", NumTag(n) >>) }

\* the test cases found in the repository: one per ticket number
RECURSIVE OptReposOf(_)
OptReposOf(n) ==
    IF n = 0 THEN { << >> }
    ELSE { Append(r, t) : r \in OptReposOf(n - 1), t \in OptTestChoices(n) }

OptRepos == OptReposOf(NumOptTests)

OptTagPool == { "zstream", "api", "policyset" }

InitOptimize ==
    /\ phase = "optimize"
    /\ component \in { "grc", "alc" }
    /\ min_tests_per_tag \in 1..MaxMinTests
    /\ tags \in SUBSET OptTagPool
    /\ \E found \in OptRepos : tag_to_tests = BuildIndex(EmptyIndex, found)
    /\ LET sel == select_tests_by_tags(tags, tag_to_tests, FALSE)
       IN  selected_tests = sel.must_run \o sel.should_run
    /\ optimized = << >>
    /\ tags_ginkgo = << >>
    /\ trigger_jenkins = FALSE
    /\ is_critical = FALSE
    /\ must_run = << >>
    /\ should_run = << >>
    /\ test_names_seen = {}
    /\ tag_pos = 1
    /\ test_pos = 1
    /\ IdleClassify /\ IdleMerge /\ IdleRun /\ IdleIndex

\* self._optimize_tags_for_jenkins(selected_tests, component, min_tests_per_tag)
OptimizeTags ==
    /\ phase = "optimize"
    /\ optimized' = optimize_tags_for_jenkins(selected_tests, component,
                                              min_tests_per_tag)
    /\ phase' = "optimized"
    /\ UNCHANGED << indexVars, runVars, component, selected_tests, min_tests_per_tag, tags_ginkgo,
                    trigger_jenkins, classifyVars, selectVars, mergeVars >>

NextOptimize == OptimizeTags

SpecOptimize == InitOptimize /\ [][NextOptimize]_vars

(***************************************************************************)
(* TestRepository._extract_tags_from_file and extract_test_tags.           *)
(*                                                                         *)
(* A test file is modelled by what the patterns of its dialect find in it: *)
(*   describes  the describe / ginkgo.Describe declarations that carry     *)
(*              tags, in file order, each [suite, tags]; tags is the tag   *)
(*              reference (.spec.js), the quoted tags as spelled (.cy.js)  *)
(*              or the comma-separated labels (_test.go)                   *)
(*   its        the it / It declarations of the whole file, in file order, *)
(*              each [name, tags]; tags are the quoted tags of the case's  *)
(*              own tag list (.cy.js), << >> when it has none              *)
(*   readable   whether open() and read() succeed                          *)
(* ix holds the locals tag_to_tests and all_tags and the files printed     *)
(* with "Error reading".                                                   *)
(***************************************************************************)
TestFile(path, suffix, describes, its) ==
    [path |-> path, suffix |-> suffix, readable |-> TRUE,
     describes |-> describes, its |-> its]

Describe(suite, declared) == [suite |-> suite, tags |-> declared]

It(name, declared) == [name |-> name, tags |-> declared]

\* tag_mappings.get(tag_ref, []) of the .spec.js branch
tag_mappings(tag_ref) ==
    CASE tag_ref = "tags.env"      -> << "CANARY", "ROSA" >>
      [] tag_ref = "tags.modes"    -> << "BVT", "SVT" >>
      [] tag_ref = "tags.required" -> << "REQUIRED" >>
      [] OTHER                     -> << >>

\* the loop over re.findall of the quoted tags: tag.lstrip('@'), kept when
\* not empty
RECURSIVE CleanTags(_)
CleanTags(declared) ==
    IF declared = << >> THEN << >>
    ELSE (IF Head(declared).tag # "" THEN << Head(declared).tag >> ELSE << >>)
         \o CleanTags(Tail(declared))

\* the loop over labels_str.split(','): the stripped label, kept when not
\* empty
RECURSIVE GinkgoLabels(_)
GinkgoLabels(pieces) ==
    IF pieces = << >> THEN << >>
    ELSE (IF Head(pieces) # "" THEN << Head(pieces) >> ELSE << >>)
         \o GinkgoLabels(Tail(pieces))

\* the generic tags left out of combined_tags
NoiseTags == { "non-ui", "uitest", "ui" }

\* combined_tags of one it() of a .cy.js file
CombinedTags(describe_tags, it_tags, test_number) ==
    LET both == describe_tags \o it_tags
        kept == Filter(both, Range(both) \ NoiseTags)
    IN  IF test_number \notin Range(kept) THEN Append(kept, test_number)
        ELSE kept

\* the it() loop of the .spec.js and _test.go branches: every case of the
\* file takes the labels of the describe at hand
RECURSIVE IndexUnderLabels(_, _, _, _)
IndexUnderLabels(index, its, suite, labels) ==
    IF its = << >> THEN index
    ELSE IndexUnderLabels(
            AppendUnderTags(index, TestInfo(Head(its).name, suite, labels),
                            labels),
            Tail(its), suite, labels)

\* the loop over describe_matches of the .spec.js branch: the it() pattern
\* is searched in the whole content for every describe
RECURSIVE ExtractSpecDescribes(_, _, _)
ExtractSpecDescribes(ix, describes, its) ==
    IF describes = << >> THEN ix
    ELSE LET labels == tag_mappings(Head(describes).tags)
             ix1 == [ix EXCEPT
                       !.all_tags = @ \cup Range(labels),
                       !.tag_to_tests =
                           IndexUnderLabels(@, its, Head(describes).suite,
                                            labels)]
         IN  ExtractSpecDescribes(ix1, Tail(describes), its)

\* the it() loop of the .cy.js branch
RECURSIVE ExtractCypressIts(_, _, _, _)
ExtractCypressIts(ix, its, suite, describe_tags) ==
    IF its = << >> THEN ix
    ELSE LET test_number   == Head(its).name.number
             it_tags       == CleanTags(Head(its).tags)
             combined_tags == CombinedTags(describe_tags, it_tags, test_number)
             ix1 == [ix EXCEPT
                       !.all_tags = @ \cup Range(it_tags) \cup
                           (IF test_number \notin
                                  Range(describe_tags \o it_tags)
                            THEN { test_number } ELSE {}),
                       !.tag_to_tests =
                           AppendUnderTags(@,
                               TestInfo(Head(its).name, suite, combined_tags),
                               combined_tags)]
         IN  ExtractCypressIts(ix1, Tail(its), suite, describe_tags)

\* faulty variant of ReadFailed: the handler starts the index afresh
ReadFailed_Clears(ix, file) ==
    [ix EXCEPT !.log = Append(@, file.path), !.tag_to_tests = EmptyIndex]

\* "except Exception as e": the file is reported, nothing else changes
ReadFailed(ix, file) == [ix EXCEPT !.log = Append(@, file.path)]

\* _extract_tags_from_file: the branch of the file's suffix, inside
\* try / except Exception
extract_tags_from_file(ix, file) ==
    IF ~file.readable
    THEN ReadFailed(ix, file)
    ELSE IF file.suffix = ".spec.js"
    THEN ExtractSpecDescribes(ix, file.describes, file.its)
    ELSE IF file.suffix = ".cy.js"
    THEN IF file.describes = << >> THEN ix
         ELSE LET describe_tags == CleanTags(file.describes[1].tags)
              IN  ExtractCypressIts(
                      [ix EXCEPT !.all_tags = @ \cup Range(describe_tags)],
                      file.its, file.describes[1].suite, describe_tags)
    ELSE IF file.suffix = "_test.go"
    THEN IF file.describes = << >> THEN ix
         ELSE LET labels == GinkgoLabels(file.describes[1].tags)
                  found  == SelectSeq(file.its,
                                LAMBDA it : it.name.prefix = "RHACM4K-")
              IN  [ix EXCEPT
                     !.all_tags = @ \cup Range(labels),
                     !.tag_to_tests =
                         IndexUnderLabels(@, found, file.describes[1].suite,
                                          labels)]
    ELSE ix

IndexStart == [tag_to_tests |-> EmptyIndex, all_tags |-> {}, log |-> << >>]

\* extract_test_tags: the loop over the files of the glob
RECURSIVE ExtractFiles(_, _)
ExtractFiles(ix, files) ==
    IF files = << >> THEN ix
    ELSE ExtractFiles(extract_tags_from_file(ix, Head(files)), Tail(files))

extract_test_tags(files) == ExtractFiles(IndexStart, files)

(***************************************************************************)
(* SpecIndex: one run of extract_test_tags over the files the glob of the  *)
(* component's test pattern returns, one file per step.  A component has   *)
(* one pattern, so the files of a run share their suffix and each file is  *)
(* visited once; no two files of a run declare the same test name.         *)
(***************************************************************************)
\* the files a test repository may hold, by suffix
TestFilePool(suffix) ==
    IF suffix = ".spec.js"
    THEN { TestFile("a", suffix, << Describe("s1", "tags.env") >>,
                    << It(TestName(Upper, 1), << >>) >>),
           TestFile("b", suffix,
                    << Describe("s2", "tags.env"), Describe("s3", "tags.modes") >>,
                    << It(TestName(Upper, 2), << >>),
                       It(TestName(Lower, 3), << >>) >>),
           TestFile("c", suffix,
                    << Describe("s4", "tags.required"),
                       Describe("s5", "tags.required") >>,
                    << It(TestName(Upper, 4), << >>) >>),
           TestFile("d", suffix, << Describe("s6", "tags.skip") >>,
                    << It(TestName(Upper, 5), << >>) >>) }
    ELSE IF suffix = ".cy.js"
    THEN { TestFile("a", suffix,
                    << Describe("s1", << Tok("@", "policyset"),
                                         Tok("@", "non-ui") >>) >>,
                    << It(TestName(Upper, 1), << Tok("@", "1"), Tok("@", "api") >>),
                       It(TestName(Lower, 2), << >>) >>),
           TestFile("b", suffix,
                    << Describe("s2", << Tok("@", "api"), Tok("@", "") >>),
                       Describe("s3", << Tok("@", "zstream") >>) >>,
                    << It(TestName(Upper, 3), << Tok("", "zstream") >>) >>),
           TestFile("c", suffix,
                    << Describe("s4", << Tok("@", "api") >>) >>,
                    << It(TestName(Upper, 4), << Tok("@", "api"), Tok("@", "4") >>) >>),
           TestFile("d", suffix, << >>,
                    << It(TestName(Upper, 5), << Tok("@", "api") >>) >>) }
    ELSE { TestFile("a", suffix,
                    << Describe("s1", << "zstream", "api" >>) >>,
                    << It(TestName(Upper, 1), << >>),
                       It(TestName(Upper, 2), << >>) >>),
           TestFile("b", suffix,
                    << Describe("s2", << "policyset", "" >>),
                       Describe("s3", << "api" >>) >>,
                    << It(TestName(Upper, 3), << >>),
                       It(TestName(Lower, 4), << >>) >>),
           TestFile("c", suffix,
                    << Describe("s4", << "api", "api" >>) >>,
                    << It(TestName(Upper, 4), << >>) >>),
           TestFile("d", suffix, << >>,
                    << It(TestName(Upper, 5), << >>) >>) }

Suffixes == { ".spec.js", ".cy.js", "_test.go" }

\* the files of the pool, each also as a file whose read fails
TestFiles(suffix) ==
    { [f EXCEPT !.readable = r] : f \in TestFilePool(suffix), r \in BOOLEAN }

InitIndex ==
    /\ phase = "index"
    /\ \E suffix \in Suffixes :
          /\ test_files \in SeqsUpTo(TestFiles(suffix), MaxTestFiles)
          /\ \A i, j \in 1..Len(test_files) :
                test_files[i].path = test_files[j].path => i = j
    /\ file_pos = 1
    /\ tag_to_tests = EmptyIndex
    /\ all_tags = {}
    /\ index_log = << >>
    /\ tags = {}
    /\ is_critical = FALSE
    /\ must_run = << >>
    /\ should_run = << >>
    /\ test_names_seen = {}
    /\ tag_pos = 1
    /\ test_pos = 1
    /\ IdleClassify /\ IdleMerge /\ IdleOpt /\ IdleRun

IndexLocals ==
    [tag_to_tests |-> tag_to_tests, all_tags |-> all_tags, log |-> index_log]

\* self._extract_tags_from_file(test_file, tag_to_tests, all_tags)
ExtractTagsFromFile ==
    /\ phase = "index"
    /\ file_pos <= Len(test_files)
    /\ LET ix == extract_tags_from_file(IndexLocals, test_files[file_pos])
       IN  /\ tag_to_tests' = ix.tag_to_tests
           /\ all_tags' = ix.all_tags
           /\ index_log' = ix.log
    /\ file_pos' = file_pos + 1
    /\ UNCHANGED << runVars, phase, test_files, tags, is_critical, must_run,
                    should_run, test_names_seen, tag_pos, test_pos,
                    classifyVars, mergeVars, optVars >>

\* return tag_to_tests
ExtractReturn ==
    /\ phase = "index"
    /\ file_pos > Len(test_files)
    /\ phase' = "indexed"
    /\ UNCHANGED << indexVars, runVars, selectVars, classifyVars, mergeVars,
                    optVars >>

NextIndex ==
    \/ ExtractTagsFromFile
    \/ ExtractReturn

SpecIndex == InitIndex /\ [][NextIndex]_vars

(***************************************************************************)
(* Spec: one run of run_single_pr, from the classification of the change   *)
(* to the trigger call.                                                    *)
(***************************************************************************)
\* FILE_TO_TAG_MAPPINGS.get(component, {}), the rules the run's paths can meet
ComponentRules(comp) ==
    IF comp = "grc"
    THEN [path_to_tags |->
            << [pattern |-> Pat(<< << "controllers/" >>, << "configurationpolicy" >> >>, FALSE),
                tags    |-> << "zstream" >>],
               [pattern |-> Pat(<< << "controllers/" >>, << "policyset" >> >>, FALSE),
                tags    |-> << "policyset" >>],
               [pattern |-> Pat(<< << ".md" >> >>, TRUE),
                tags    |-> << >>] >>,
          critical_patterns |->
            << Pat(<< << "pkg/" >>, << "common/" >> >>, FALSE) >>]
    ELSE IF comp = "global-hub"
    THEN [path_to_tags |->
            << [pattern |-> Pat(<< << "agent/" >> >>, FALSE),
                tags    |-> << "addon", "migration", "status" >>],
               [pattern |-> Pat(<< << "manager/" >> >>, FALSE),
                tags    |-> << "event", "kafka" >>],
               [pattern |-> Pat(<< << ".md" >> >>, TRUE),
                tags    |-> << >>] >>,
          critical_patterns |->
            << Pat(<< << "migration" >> >>, FALSE) >>]
    ELSE [path_to_tags |-> << >>, critical_patterns |-> << >>]

\* paths a change of the component may touch
RunFilePool(comp) ==
    IF comp = "grc"
    THEN { << "controllers/", "configurationpolicy", ".go" >>,
           << "controllers/", "policyset", ".go" >>,
           << "README", ".md" >> }
    ELSE { << "manager/", "migration", ".go" >>,
           << "agent/", "foo", ".go" >>,
           << "README", ".md" >> }

\* the declarations test case n of the component's repository may have:
\* grc, tagged-block dialect (suite tags, then the ticket number);
\* global-hub, labeled-suite dialect (the labels of the suite)
RunTestChoices(comp, n) ==
    IF comp = "grc"
    THEN { TestInfo(TestName(Upper, n), "s1", << "e2e", "zstream", NumTag(n) >>),
           TestInfo(TestName(Upper, n), "s2", << "policyset", NumTag(n) >>) }
    ELSE { TestInfo(TestName(Upper, n), "s1", << "e2e", "event" >>),
           TestInfo(TestName(Upper, n), "s2", << "kafka" >>) }

RECURSIVE RunReposOf(_, _)
RunReposOf(comp, n) ==
    IF n = 0 THEN { << >> }
    ELSE { Append(r, t) : r \in RunReposOf(comp, n - 1),
                          t \in RunTestChoices(comp, n) }

RunRepos(comp) == RunReposOf(comp, NumTests)

Init ==
    /\ phase = "run_start"
    /\ component \in { "grc", "global-hub" }
    /\ trigger_jenkins \in BOOLEAN
    /\ mapping_rules = ComponentRules(component)
    /\ changed_files \in SeqsUpTo(RunFilePool(component), MaxFiles)
    /\ \E found \in RunRepos(component) :
          tag_to_tests = BuildIndex(EmptyIndex, found)
    /\ tag_result = NoTagResult
    /\ tags = {}
    /\ is_critical = FALSE
    /\ must_run = << >>
    /\ should_run = << >>
    /\ test_names_seen = {}
    /\ tag_pos = 1
    /\ test_pos = 1
    /\ selected_tests = << >>
    /\ min_tests_per_tag = DefaultMinTestsPerTag
    /\ optimized = << >>
    /\ tags_ginkgo = << >>
    /\ IdleMerge /\ IdleRun /\ IdleIndex

\* Step 3: tag_result = selector.map_files_to_tags(pr_info['changed_files'])
RunMapFiles ==
    /\ phase = "run_start"
    /\ tag_result' = map_files_to_tags(mapping_rules, changed_files)
    /\ phase' = "run_mapped"
    /\ UNCHANGED << indexVars, runVars, mapping_rules, changed_files, selectVars, mergeVars, optVars >>

\* "Handle docs-only changes": the early return with an empty selection
RunDocsOnlyReturn ==
    /\ phase = "run_mapped"
    /\ tag_result.is_docs_only
    /\ phase' = "run_done"
    /\ UNCHANGED << indexVars, runVars, classifyVars, selectVars, mergeVars, optVars >>

\* Step 4: selected_tests = selector.select_tests_by_tags(...)
RunSelectTests ==
    /\ phase = "run_mapped"
    /\ ~tag_result.is_docs_only
    /\ tags' = tag_result.tags
    /\ is_critical' = tag_result.is_critical
    /\ LET sel == select_tests_by_tags(tag_result.tags, tag_to_tests,
                                       tag_result.is_critical)
       IN  /\ must_run' = sel.must_run
           /\ should_run' = sel.should_run
           /\ test_names_seen' = Names(sel.must_run \o sel.should_run)
    /\ phase' = "run_selected"
    /\ UNCHANGED << indexVars, runVars, tag_to_tests, tag_pos, test_pos, classifyVars, mergeVars,
                    optVars >>

\* Step 6: _trigger_jenkins_job(component, ..., selected_tags, ..., all_tests)
\* up to the trigger call
RunTrigger ==
    /\ phase = "run_selected"
    /\ trigger_jenkins
    /\ selected_tests' = must_run \o should_run
    /\ tags_ginkgo' = TagsGinkgo(component, tags, must_run \o should_run)
    /\ phase' = "run_triggered"
    /\ UNCHANGED << indexVars, runVars, component, min_tests_per_tag, optimized, trigger_jenkins,
                    classifyVars, selectVars, mergeVars >>

\* the return of the result dict
RunReturn ==
    /\ \/ phase = "run_triggered"
       \/ phase = "run_selected" /\ ~trigger_jenkins
    /\ phase' = "run_done"
    /\ UNCHANGED << indexVars, runVars, classifyVars, selectVars, mergeVars, optVars >>

Next ==
    \/ RunMapFiles
    \/ RunDocsOnlyReturn
    \/ RunSelectTests
    \/ RunTrigger
    \/ RunReturn

Spec == Init /\ [][Next]_vars

(***************************************************************************)
(* The trigger step: UnifiedPRTestSelector._trigger_jenkins_job and        *)
(* JenkinsJobTrigger.trigger_job.  A parameter value is a string; it is    *)
(* modelled like a tag expression, as the list of its "||"-separated       *)
(* elements, so that 'auto', a secret and a computed expression are values *)
(* of one kind.                                                            *)
(***************************************************************************)
\* a string without "||"
Text(s) == << Tok("", s) >>

\* one comma-separated item of the --jenkins-params string: KEY:VALUE, or a
\* piece without a colon
Item(key, value) == [colon |-> TRUE, key |-> key, value |-> value]

BareItem(text) == [colon |-> FALSE, key |-> text, value |-> ""]

\* d[key] = value
DictSet(d, key, value) ==
    [k \in DOMAIN d \cup { key } |-> IF k = key THEN value ELSE d[k]]

\* "Parse custom parameters": items without a colon are skipped, a key given
\* twice keeps its last value
RECURSIVE ParseParams(_, _)
ParseParams(d, items) ==
    IF items = << >> THEN d
    ELSE ParseParams(IF Head(items).colon
                     THEN DictSet(d, Head(items).key, Text(Head(items).value))
                     ELSE d,
                     Tail(items))

\* faulty variant of TriggerParameters: TEST_TAGS:auto is not replaced
TriggerParameters_NoAuto(comp, override, expr, pr_info, batch_mode, pr_count) ==
    IF comp = "global-hub"
    THEN DictSet(EmptyDict, "TEST_TAGS", expr)
    ELSE LET p0 == ParseParams(EmptyDict, override)
             p2 == DictSet(DictSet(p0, "PR_NUMBER", Text(pr_info.pr_number)),
                           "PR_TITLE", Text(pr_info.title))
         IN  IF batch_mode
             THEN DictSet(DictSet(p2, "BATCH_MODE", Text("true")),
                          "PR_COUNT", Text(NumTag(pr_count)))
             ELSE p2

\* the parameters handed to trigger_job
TriggerParameters(comp, override, expr, pr_info, batch_mode, pr_count) ==
    IF comp = "global-hub"
    THEN DictSet(EmptyDict, "TEST_TAGS", expr)
    ELSE LET p0 == ParseParams(EmptyDict, override)
             p1 == IF "TEST_TAGS" \in DOMAIN p0 /\ p0["TEST_TAGS"] = Text("auto")
                   THEN DictSet(p0, "TEST_TAGS", expr)
                   ELSE p0
             p2 == DictSet(DictSet(p1, "PR_NUMBER", Text(pr_info.pr_number)),
                           "PR_TITLE", Text(pr_info.title))
         IN  IF batch_mode
             THEN DictSet(DictSet(p2, "BATCH_MODE", Text("true")),
                          "PR_COUNT", Text(NumTag(pr_count)))
             ELSE p2

\* key.upper() for the parameter names of the model
upper(key) ==
    CASE key = "api_token" -> "API_TOKEN"
      [] OTHER -> key

\* "s in key.upper()" for the words trigger_job looks for
HasWord(ukey, word) ==
    << ukey, word >> \in { << "HUB_PASSWORD", "PASSWORD" >>,
                           << "API_TOKEN", "TOKEN" >> }

\* any(s in key.upper() for s in ['PASSWORD', 'TOKEN', 'SECRET'])
IsSensitive(key) ==
    \E word \in { "PASSWORD", "TOKEN", "SECRET" } : HasWord(upper(key), word)

\* safe_params: the values of sensitive parameters replaced by '***'
SafeParams(params) ==
    [k \in DOMAIN params |->
        IF IsSensitive(k) THEN Text("***") ELSE params[k]]

\* one printed line: what it says and the parameter dict it spells out
LogLine(text, shown) == [text |-> text, shown |-> shown]

\* how requests.post and raise_for_status can end
PostOutcomes == { "ok", "HTTPError", "ConnectionError", "ReadTimeout" }

\* the query string that str(e) of a RequestException spells out: an
\* HTTPError ("... for url: <url>?<query>") and a ConnectionError ("Max
\* retries exceeded with url: <path>?<query>") quote the request URL, whose
\* query string is params=parameters; a read timeout does not
ErrorQuery(outcome, params) ==
    IF outcome \in { "HTTPError", "ConnectionError" } THEN params ELSE EmptyDict

\* the lines trigger_job prints
TriggerLog(params, outcome) ==
    << LogLine("Job", EmptyDict),
       LogLine("Parameters", SafeParams(params)) >> \o
    ( IF outcome = "ok"
      THEN << LogLine("Job triggered successfully", EmptyDict),
              LogLine("Queue URL", EmptyDict) >>
      ELSE << LogLine("Failed to trigger job", ErrorQuery(outcome, params)) >> )

(***************************************************************************)
(* SpecRun: one process, from main's call of run_single_pr or              *)
(* run_multiple_prs to its exit.  Every step that can raise does so or     *)
(* not: the clone, the indexing, the mapping, the selection, the report    *)
(* writing and the trigger call.                                           *)
(***************************************************************************)
\* the keys of COMPONENT_TEST_REPOS
COMPONENT_TEST_REPOS == { "global-hub", "grc", "alc", "clc", "search" }

\* the keys of FILE_TO_TAG_MAPPINGS
FILE_TO_TAG_MAPPINGS == { "global-hub", "grc", "search" }

\* the pr_info dict get_pr_info returns; component is detect_component(repo)
PRInfo(comp, number, files) ==
    [component |-> comp, pr_number |-> number, title |-> "title",
     changed_files |-> files]

\* changes the process may be given: a grc code change, a grc docs-only
\* change, a global-hub change on a critical path, a change of alc (a
\* component with a test repository and no entry in FILE_TO_TAG_MAPPINGS),
\* and a change of a repository detect_component does not know
RunPRPool ==
    { PRInfo("grc", "101", << << "controllers/", "configurationpolicy", ".go" >> >>),
      PRInfo("grc", "102", << << "README", ".md" >> >>),
      PRInfo("global-hub", "103", << << "manager/", "migration", ".go" >>,
                                     << "agent/", "foo", ".go" >> >>),
      PRInfo("alc", "104", << << "agent/", "foo", ".go" >> >>),
      PRInfo("unknown", "105", << << "agent/", "foo", ".go" >> >>) }

\* the test cases extract_test_tags finds in the clone of the component's
\* test repository
ClonedTests(comp) ==
    IF comp = "grc"
    THEN << TestInfo(TestName(Upper, 1), "s1", << "e2e", "zstream", "1" >>),
            TestInfo(TestName(Upper, 2), "s1", << "e2e", "zstream", "2" >>),
            TestInfo(TestName(Upper, 3), "s2", << "policyset", "3" >>),
            TestInfo(TestName(Upper, 4), "s1", << "e2e", "zstream", "4" >>),
            TestInfo(TestName(Upper, 5), "s1", << "e2e", "zstream", "5" >>),
            TestInfo(TestName(Upper, 6), "s1", << "e2e", "zstream", "6" >>) >>
    ELSE IF comp = "global-hub"
    THEN << TestInfo(TestName(Upper, 1), "s1", << "e2e", "event" >>),
            TestInfo(TestName(Upper, 2), "s1", << "e2e", "event", "kafka" >>),
            TestInfo(TestName(Upper, 3), "s2", << "addon" >>) >>
    ELSE << TestInfo(TestName(Upper, 1), "s1", << "e2e", "api" >>) >>

\* values of --jenkins-params: none, TEST_TAGS:auto, a password, a password
\* and TEST_TAGS:auto, a fixed TEST_TAGS and a piece without a colon, a token
\* under a lower-case name
ParamsPool ==
    { << >>,
      << Item("TEST_TAGS", "auto") >>,
      << Item("HUB_PASSWORD", "pw-A") >>,
      << Item("HUB_PASSWORD", "pw-B"), Item("TEST_TAGS", "auto") >>,
      << Item("TEST_TAGS", "smoke"), BareItem("junk") >>,
      << Item("api_token", "tk-A") >> }

InitRun ==
    /\ phase = "main"
    /\ mode \in { "single", "batch" }
    /\ prs_info \in IF mode = "single"
                    THEN { << pr >> : pr \in RunPRPool }
                    ELSE SeqsUpTo(RunPRPool, MaxPRs) \ { << >> }
    /\ trigger_jenkins \in BOOLEAN
    /\ output_dir \in BOOLEAN
    /\ jenkins_url \in BOOLEAN
    /\ jenkins_params \in ParamsPool
    /\ work_dir = "none"
    /\ repo_path = FALSE
    /\ all_selected_tags = {}
    /\ report_file = NoReport
    /\ parameters = EmptyDict
    /\ trigger_log = << >>
    /\ post_calls = 0
    /\ pending = "none"
    /\ error = "none"
    /\ exit_status = -1
    /\ component = "none"
    /\ selected_tests = << >>
    /\ min_tests_per_tag = DefaultMinTestsPerTag
    /\ optimized = << >>
    /\ tags_ginkgo = << >>
    /\ IdleClassify /\ IdleSelect /\ IdleMerge /\ IdleIndex

\* the inputs of the process, which no step changes
runInputs == << mode, prs_info, trigger_jenkins, output_dir, jenkins_url,
                jenkins_params, min_tests_per_tag, optimized, tag_pos,
                test_pos >>

\* the effects outside the process memory
runEffects == << work_dir, repo_path, report_file, parameters, trigger_log,
                 post_calls, tags_ginkgo, selected_tests >>

\* faulty variant of RaiseInTry: the cleanup is not in a finally clause
RaiseInTry_NoFinally(kind) ==
    /\ error' = kind
    /\ pending' = "raise"
    /\ phase' = "main_except"

\* an exception leaves the try block: the finally clause runs next
RaiseInTry(kind) ==
    /\ error' = kind
    /\ pending' = "raise"
    /\ phase' = "r_finally"

\* faulty variant of ComponentError: the components of a batch are not
\* compared
ComponentError_UnknownOnly(md, components) ==
    IF "unknown" \in components
    THEN "ValueError: unknown component"
    ELSE "none"

\* the validation of the components of the changes: run_multiple_prs
\* refuses changes of different components, both runs refuse 'unknown'
ComponentError(md, components) ==
    IF md = "batch" /\ Cardinality(components) > 1
    THEN "ValueError: different components"
    ELSE IF "unknown" \in components
    THEN "ValueError: unknown component"
    ELSE "none"

\* Step 1 of run_single_pr and steps 1-2 of run_multiple_prs: the components
\* of the changes are validated before anything is created
MainAnalyze ==
    /\ phase = "main"
    /\ LET components == { prs_info[i].component : i \in 1..Len(prs_info) }
           err        == ComponentError(mode, components)
       IN  IF err # "none"
           THEN /\ error' = err
                /\ phase' = "main_except"
                /\ UNCHANGED component
           ELSE /\ component' = prs_info[1].component
                /\ phase' = "r_init"
                /\ UNCHANGED error
    /\ UNCHANGED << indexVars, runInputs, runEffects, pending, exit_status,
                    all_selected_tags, classifyVars, tags, tag_to_tests,
                    is_critical, must_run, should_run, test_names_seen,
                    mergeVars >>

\* test_repo = TestRepository(component): mkdtemp, then the component check
NewTestRepository ==
    /\ phase = "r_init"
    /\ work_dir' = "exists"
    /\ IF component \notin COMPONENT_TEST_REPOS
       THEN /\ error' = "ValueError: unknown component"
            /\ phase' = "main_except"
       ELSE /\ phase' = "r_try"
            /\ UNCHANGED error
    /\ UNCHANGED << indexVars, runInputs, repo_path, report_file, parameters,
                    trigger_log, post_calls, tags_ginkgo, selected_tests,
                    pending, exit_status, component, all_selected_tags,
                    classifyVars, tags, tag_to_tests, is_critical, must_run,
                    should_run, test_names_seen, mergeVars >>

\* test_repo.clone(): git clone succeeds or raises CalledProcessError
Clone ==
    /\ phase = "r_try"
    /\ \E ok \in BOOLEAN :
          IF ok
          THEN /\ repo_path' = TRUE
               /\ phase' = "r_cloned"
               /\ UNCHANGED << error, pending >>
          ELSE /\ RaiseInTry("clone")
               /\ UNCHANGED repo_path
    /\ UNCHANGED << indexVars, runInputs, work_dir, report_file, parameters,
                    trigger_log, post_calls, tags_ginkgo, selected_tests,
                    exit_status, component, all_selected_tags, classifyVars,
                    tags, tag_to_tests, is_critical, must_run, should_run,
                    test_names_seen, mergeVars >>

\* tag_to_tests = test_repo.extract_test_tags(), then
\* selector = TagBasedSelector(component)
ExtractTestTags ==
    /\ phase = "r_cloned"
    /\ \E ok \in BOOLEAN :
          IF ok
          THEN /\ tag_to_tests' = BuildIndex(EmptyIndex, ClonedTests(component))
               /\ mapping_rules' = ComponentRules(component)
               /\ phase' = "r_indexed"
               /\ UNCHANGED << error, pending >>
          ELSE /\ RaiseInTry("indexing")
               /\ UNCHANGED << tag_to_tests, mapping_rules >>
    /\ UNCHANGED << indexVars, runInputs, runEffects, exit_status, component,
                    all_selected_tags, changed_files, tag_result, tags,
                    is_critical, must_run, should_run, test_names_seen,
                    mergeVars >>

\* run_single_pr, Step 3: tag_result = selector.map_files_to_tags(...)
SingleMapFiles ==
    /\ phase = "r_indexed"
    /\ mode = "single"
    /\ \E ok \in BOOLEAN :
          IF ok
          THEN /\ changed_files' = prs_info[1].changed_files
               /\ tag_result' = map_files_to_tags(mapping_rules,
                                                  prs_info[1].changed_files)
               /\ phase' = "r_mapped"
               /\ UNCHANGED << error, pending >>
          ELSE /\ RaiseInTry("mapping")
               /\ UNCHANGED << changed_files, tag_result >>
    /\ UNCHANGED << indexVars, runInputs, runEffects, exit_status, component,
                    all_selected_tags, mapping_rules, tags, tag_to_tests,
                    is_critical, must_run, should_run, test_names_seen,
                    mergeVars >>

\* run_single_pr, "Handle docs-only changes": the early return
SingleDocsOnlyReturn ==
    /\ phase = "r_mapped"
    /\ tag_result.is_docs_only
    /\ pending' = "return"
    /\ phase' = "r_finally"
    /\ UNCHANGED << indexVars, runInputs, runEffects, error, exit_status, component,
                    all_selected_tags, classifyVars, tags, tag_to_tests,
                    is_critical, must_run, should_run, test_names_seen,
                    mergeVars >>

\* run_single_pr, Step 4: selected_tests = selector.select_tests_by_tags(...)
SingleSelectTests ==
    /\ phase = "r_mapped"
    /\ ~tag_result.is_docs_only
    /\ \E ok \in BOOLEAN :
          IF ok
          THEN LET sel == select_tests_by_tags(tag_result.tags, tag_to_tests,
                                               tag_result.is_critical)
               IN  /\ tags' = tag_result.tags
                   /\ is_critical' = tag_result.is_critical
                   /\ must_run' = sel.must_run
                   /\ should_run' = sel.should_run
                   /\ test_names_seen' = Names(sel.must_run \o sel.should_run)
                   /\ phase' = "r_selected"
                   /\ UNCHANGED << error, pending >>
          ELSE /\ RaiseInTry("selection")
               /\ UNCHANGED << tags, is_critical, must_run, should_run,
                               test_names_seen >>
    /\ UNCHANGED << indexVars, runInputs, runEffects, exit_status, component,
                    all_selected_tags, classifyVars, tag_to_tests, mergeVars >>

\* run_multiple_prs, Step 4: one iteration of "for pr_info in prs_info":
\* the change is mapped, a docs-only change is skipped, any other is
\* selected for and merged
BatchNextPR ==
    /\ phase = "r_indexed"
    /\ mode = "batch"
    /\ pr_pos <= Len(prs_info)
    /\ \E ok \in BOOLEAN :
          IF ok
          THEN LET tr  == map_files_to_tags(mapping_rules,
                                            prs_info[pr_pos].changed_files)
                   sel == IF tr.is_docs_only
                          THEN [must_run |-> << >>, should_run |-> << >>]
                          ELSE select_tests_by_tags(tr.tags, tag_to_tests,
                                                    tr.is_critical)
                   m   == MergePR(MergeLocals, sel)
               IN  /\ changed_files' = prs_info[pr_pos].changed_files
                   /\ tag_result' = tr
                   /\ all_selected_tags' = all_selected_tags \cup tr.tags
                   /\ prs_results' = Append(prs_results, sel)
                   /\ all_must_run' = m.must
                   /\ all_should_run' = m.should
                   /\ batch_names_seen' = m.seen
                   /\ pr_pos' = pr_pos + 1
                   /\ UNCHANGED << phase, error, pending >>
          ELSE /\ RaiseInTry("selection")
               /\ UNCHANGED << changed_files, tag_result, all_selected_tags,
                               prs_results, all_must_run, all_should_run,
                               batch_names_seen, pr_pos >>
    /\ UNCHANGED << indexVars, runInputs, runEffects, exit_status, component,
                    mapping_rules, tags, tag_to_tests, is_critical, must_run,
                    should_run, test_names_seen, all_selected_tests >>

\* run_multiple_prs: all_selected_tests = all_must_run + all_should_run
BatchFinish ==
    /\ phase = "r_indexed"
    /\ mode = "batch"
    /\ pr_pos > Len(prs_info)
    /\ all_selected_tests' = all_must_run \o all_should_run
    /\ phase' = "r_selected"
    /\ UNCHANGED << indexVars, runInputs, runEffects, error, pending, exit_status,
                    component, all_selected_tags, classifyVars, tags,
                    tag_to_tests, is_critical, must_run, should_run,
                    test_names_seen, prs_results, pr_pos, all_must_run,
                    all_should_run, batch_names_seen >>

\* the selection of the run: selected_tags and the selected tests
RunSelectedTags == IF mode = "single" THEN tags ELSE all_selected_tags

RunSelectedTests ==
    IF mode = "single" THEN must_run \o should_run ELSE all_selected_tests

\* ReportGenerator._optimize_tags_for_report: the algorithm of
\* _optimize_tags_for_jenkins once more, its output joined with " || "
optimize_tags_for_report(tests, comp, minTests) ==
    IF tests = << >> THEN << >>
    ELSE IF comp = "grc"
    THEN LET out == SortForJenkins(OptimizedTagSet(tests, minTests))
         IN  [i \in 1..Len(out) |-> Tok("@", out[i])]
    ELSE LET mt  == UNION { Range(tests[i].matched_tags) : i \in 1..Len(tests) }
             out == sorted(mt)
         IN  [i \in 1..Len(out) |-> Tok("", out[i])]

\* test_case_numbers of the grc branch of both reports
TestCaseNumbers(tests) ==
    { TicketNumber(tests[i].name) : i \in 1..Len(tests) } \ { NoNumber }

\* the expression both reports build from display_tags: the ticket numbers
\* of the selected tests for grc, the selected tags for the other components
DisplayExpression(comp, selTags, tests) ==
    IF comp = "grc"
    THEN LET out == Filter(Digits, TestCaseNumbers(tests))
         IN  [i \in 1..Len(out) |-> Tok("@", out[i])]
    ELSE LET out == sorted(selTags)
         IN  [i \in 1..Len(out) |-> Tok("", out[i])]

\* jenkins_tags of generate_single_pr_report and generate_batch_report: the
\* list of the " || "-separated elements of the expression shown
ReportJenkinsTags(md, comp, selTags, tests) ==
    IF md = "batch" /\ comp = "grc" /\ tests # << >>
    THEN optimize_tags_for_report(tests, comp, DefaultMinTestsPerTag)
    ELSE DisplayExpression(comp, selTags, tests)

\* Step 5: the report, written when an output directory is given
GenerateReport ==
    /\ phase = "r_selected"
    /\ \E ok \in BOOLEAN :
          IF ~output_dir
          THEN /\ phase' = "r_reported"
               /\ UNCHANGED << report_file, error, pending >>
          ELSE IF ok
          THEN /\ report_file' =
                    [kind  |-> mode,
                     tags  |-> RunSelectedTags,
                     tests |-> NameList(RunSelectedTests),
                     jenkins_tags |->
                         ReportJenkinsTags(mode, component, RunSelectedTags,
                                           RunSelectedTests)]
               /\ phase' = "r_reported"
               /\ UNCHANGED << error, pending >>
          ELSE /\ RaiseInTry("report")
               /\ UNCHANGED report_file
    /\ UNCHANGED << indexVars, runInputs, work_dir, repo_path, parameters, trigger_log,
                    post_calls, tags_ginkgo, selected_tests, exit_status,
                    component, all_selected_tags, classifyVars, tags,
                    tag_to_tests, is_critical, must_run, should_run,
                    test_names_seen, mergeVars >>

\* Step 6 with the trigger flag and a Jenkins URL: _trigger_jenkins_job
\* computes the parameters and trigger_job prints and posts them
TriggerJenkinsJob ==
    /\ phase = "r_reported"
    /\ trigger_jenkins
    /\ jenkins_url
    /\ LET expr   == TagsGinkgo(component, RunSelectedTags, RunSelectedTests)
           params == TriggerParameters(component, jenkins_params, expr,
                                       prs_info[1], mode = "batch",
                                       Len(prs_info))
       IN  \E outcome \in PostOutcomes :
              /\ selected_tests' = RunSelectedTests
              /\ tags_ginkgo' = expr
              /\ parameters' = params
              /\ trigger_log' = TriggerLog(params, outcome)
              /\ post_calls' = post_calls + 1
              /\ IF outcome = "ok"
                 THEN /\ pending' = "return"
                      /\ phase' = "r_finally"
                      /\ UNCHANGED error
                 ELSE RaiseInTry("trigger")
    /\ UNCHANGED << indexVars, runInputs, work_dir, repo_path, report_file, exit_status,
                    component, all_selected_tags, classifyVars, tags,
                    tag_to_tests, is_critical, must_run, should_run,
                    test_names_seen, mergeVars >>

\* Step 6 without the trigger flag, or without a Jenkins URL ("skipping
\* trigger"): the result dict is returned
ReturnWithoutTrigger ==
    /\ phase = "r_reported"
    /\ ~(trigger_jenkins /\ jenkins_url)
    /\ pending' = "return"
    /\ phase' = "r_finally"
    /\ UNCHANGED << indexVars, runInputs, runEffects, error, exit_status, component,
                    all_selected_tags, classifyVars, tags, tag_to_tests,
                    is_critical, must_run, should_run, test_names_seen,
                    mergeVars >>

\* faulty variant of Cleanup: the report lies in the directory removed
Cleanup_RemovesReport ==
    /\ phase = "r_finally"
    /\ work_dir' = IF work_dir = "exists" THEN "deleted" ELSE work_dir
    /\ report_file' = NoReport
    /\ phase' = IF pending = "return" THEN "main_return" ELSE "main_except"
    /\ UNCHANGED << indexVars, runInputs, repo_path, parameters, trigger_log,
                    post_calls, tags_ginkgo, selected_tests, pending, error,
                    exit_status, component, all_selected_tags, classifyVars,
                    tags, tag_to_tests, is_critical, must_run, should_run,
                    test_names_seen, mergeVars >>

\* finally: test_repo.cleanup(), shutil.rmtree(self.work_dir)
Cleanup ==
    /\ phase = "r_finally"
    /\ work_dir' = IF work_dir = "exists" THEN "deleted" ELSE work_dir
    /\ phase' = IF pending = "return" THEN "main_return" ELSE "main_except"
    /\ UNCHANGED << indexVars, runInputs, repo_path, report_file, parameters,
                    trigger_log, post_calls, tags_ginkgo, selected_tests,
                    pending, error, exit_status, component,
                    all_selected_tags, classifyVars, tags, tag_to_tests,
                    is_critical, must_run, should_run, test_names_seen,
                    mergeVars >>

\* main: the result is printed and the process ends with status 0
MainCompleted ==
    /\ phase = "main_return"
    /\ exit_status' = 0
    /\ phase' = "exited"
    /\ UNCHANGED << indexVars, runInputs, runEffects, pending, error, component,
                    all_selected_tags, classifyVars, tags, tag_to_tests,
                    is_critical, must_run, should_run, test_names_seen,
                    mergeVars >>

\* main, "except Exception": the error is printed and sys.exit(1)
MainExcept ==
    /\ phase = "main_except"
    /\ exit_status' = 1
    /\ phase' = "exited"
    /\ UNCHANGED << indexVars, runInputs, runEffects, pending, error, component,
                    all_selected_tags, classifyVars, tags, tag_to_tests,
                    is_critical, must_run, should_run, test_names_seen,
                    mergeVars >>

NextRun ==
    \/ MainAnalyze
    \/ NewTestRepository
    \/ Clone
    \/ ExtractTestTags
    \/ SingleMapFiles
    \/ SingleDocsOnlyReturn
    \/ SingleSelectTests
    \/ BatchNextPR
    \/ BatchFinish
    \/ GenerateReport
    \/ TriggerJenkinsJob
    \/ ReturnWithoutTrigger
    \/ Cleanup
    \/ MainCompleted
    \/ MainExcept

SpecRun == InitRun /\ [][NextRun]_vars

(***************************************************************************)
(*                              THE CLAIMS                                 *)
(***************************************************************************)
Injective(s) == \A i, j \in 1..Len(s) : s[i] = s[j] => i = j

\* a path is documentation-only: it ends in .md or .txt, or lies under a
\* docs directory
DocPath(f) ==
    \/ f[Len(f)] \in { ".md", ".txt" }
    \/ \E i \in 1..Len(f) : f[i] = "docs/"

AllDocs(files) == \A i \in 1..Len(files) : DocPath(files[i])

\* some rule of the table matches some changed file and lists tag t
RuleAdds(t) ==
    \E i \in 1..Len(changed_files) :
        \E j \in 1..Len(mapping_rules.path_to_tags) :
            /\ re_search(mapping_rules.path_to_tags[j].pattern, changed_files[i])
            /\ t \in Range(mapping_rules.path_to_tags[j].tags)

\* C1 (SpecClassify): the matched-tag set map_files_to_tags returns never
\* contains the run-everything tag "e2e", for every rule table and every
\* sequence of changed files, even when a matching rule lists it.
C1_NoRunEverythingTag ==
    phase = "classified" => "e2e" \notin tag_result.tags

\* C1 witness: a change that is not docs-only, a matching rule lists "e2e",
\* and the classifier has returned other tags without it.
C1_Witness ==
    /\ phase = "classified"
    /\ ~tag_result.is_docs_only
    /\ RuleAdds("e2e")
    /\ tag_result.tags # {}
    /\ "e2e" \notin tag_result.tags

\* C2 as stated (Spec): the tag expression _trigger_jenkins_job computes
\* never names the run-everything tag "e2e", also when selected test cases
\* carry "e2e" among their indexed tags.
C2_AsStated ==
    phase = "run_triggered" => "e2e" \notin ExprTags(tags_ginkgo)

\* C3 as stated (SpecClassify): whenever every changed file is
\* documentation-only, the classifier returns isDocsOnly = true and no tags.
\* It fails for the change with no changed file at all.
C3_AsStated ==
    (phase = "classified" /\ AllDocs(changed_files))
        => (tag_result.is_docs_only /\ tag_result.tags = {})

\* C3 amended (SpecClassify): for every change with at least one changed
\* file, all of them documentation-only, the classifier returns
\* isDocsOnly = true and an empty matched-tag set, whatever rules match.
C3_DocsOnlyShortCircuit ==
    (phase = "classified" /\ changed_files # << >> /\ AllDocs(changed_files))
        => (tag_result.is_docs_only /\ tag_result.tags = {})

\* C3 witness: a docs-only change whose paths match a rule that lists a tag
\* other than "e2e", classified as docs-only with no tags.
C3_Witness ==
    /\ phase = "classified"
    /\ changed_files # << >>
    /\ AllDocs(changed_files)
    /\ RuleAdds("status")
    /\ tag_result.is_docs_only
    /\ tag_result.tags = {}

\* C4 as stated (SpecOptimize): every selected test case carries at least
\* one tag of the optimizer's output, for every selection and every
\* min_tests_per_tag.
C4_AsStated ==
    phase = "optimized" =>
        \A i \in 1..Len(selected_tests) :
            Range(selected_tests[i].tags) \cap ExprTags(optimized) # {}

\* C5 as stated (SpecOptimize): every test case the TagIndex lists under a
\* tag of the optimizer's output is one of the selected test cases.
C5_AsStated ==
    phase = "optimized" =>
        \A t \in ExprTags(optimized) \cap DOMAIN tag_to_tests :
            Names(tag_to_tests[t]) \subseteq Names(selected_tests)

\* C6 (SpecSelect): in every step of one select_tests_by_tags run, an entry
\* with priority must_run keeps that priority and stays out of should_run,
\* its score does not decrease and its matched tags lose no tag.
C6_Step ==
    LET both  == must_run \o should_run
        both1 == must_run' \o should_run'
    IN  \A i \in 1..Len(both) :
          both[i].priority = "must_run" =>
            /\ \E j \in 1..Len(must_run') :
                  /\ must_run'[j].name = both[i].name
                  /\ must_run'[j].priority = "must_run"
            /\ \A j \in 1..Len(both1) :
                  both1[j].name = both[i].name =>
                    /\ both1[j].priority = "must_run"
                    /\ both1[j].match_score >= both[i].match_score
                    /\ Range(both[i].matched_tags) \subseteq
                         Range(both1[j].matched_tags)
            /\ \A j \in 1..Len(should_run') :
                  should_run'[j].name # both[i].name

\* C6 (SpecSelect): every step of the run keeps must_run entries must_run.
C6_MustRunNeverDemoted == [][C6_Step]_vars

\* C6 witness: a must_run entry that was updated after its creation (seen
\* again under a second tag) while the run is still going on.
C6_Witness ==
    /\ phase = "select"
    /\ \E i \in 1..Len(must_run) :
          /\ must_run[i].priority = "must_run"
          /\ Len(must_run[i].matched_tags) >= 2
          /\ must_run[i].match_score > 3

\* the merged buckets as lists of test names
BucketNames(m) == [must |-> NameList(m.must), should |-> NameList(m.should)]

\* C7 (SpecMerge): batch merge is idempotent on test names: in every state
\* of the merge loop, merging once more the selection of any change already
\* merged (after any prefix of other changes) leaves the names of both
\* merged buckets as they are.
C7_MergeIdempotent ==
    \A k \in 1..(pr_pos - 1) :
        BucketNames(MergePR(MergeLocals, prs_results[k]))
            = BucketNames(MergeLocals)

\* C7 witness: a non-empty selection has been merged after a different
\* non-empty one, and the batch holds names of both.
C7_Witness ==
    /\ pr_pos = 3
    /\ prs_results[1] # prs_results[2]
    /\ prs_results[1].must_run \o prs_results[1].should_run # << >>
    /\ prs_results[2].must_run \o prs_results[2].should_run # << >>
    /\ Len(all_must_run) + Len(all_should_run) >= 2

\* C8 (SpecMerge): every test name occurs at most once in the merged
\* must_run and should_run buckets taken together, during the merge and in
\* all_selected_tests.
C8_MergedNamesUnique ==
    /\ Injective(NameList(all_must_run \o all_should_run))
    /\ Injective(NameList(all_selected_tests))

\* C8 witness (Example 4): two changes both select the same test as
\* must_run, and the merged must_run bucket holds exactly one entry of it.
C8_Witness ==
    /\ phase = "merged"
    /\ Len(prs_results) = 2
    /\ \E n \in Names(prs_results[1].must_run) \cap Names(prs_results[2].must_run) :
          /\ Cardinality({ i \in 1..Len(all_must_run) : all_must_run[i].name = n }) = 1
          /\ n \notin Names(all_should_run)

\* C9 (SpecMerge): a test in the merged must_run bucket stays there and never
\* appears in the merged should_run bucket, whatever later changes select.
C9_Step ==
    \A n \in Names(all_must_run) :
        /\ n \in Names(all_must_run')
        /\ n \notin Names(all_should_run')
        /\ n \notin Names(all_should_run)

\* C9 (SpecMerge): every merge step keeps merged must_run names out of
\* all_should_run.
C9_MustRunNotDowngraded == [][C9_Step]_vars

\* C9 witness: the change just merged has as should_run a test an earlier
\* change had put in the merged must_run bucket.
C9_Witness ==
    /\ pr_pos = 3
    /\ \E n \in Names(prs_results[1].must_run) \cap Names(prs_results[2].should_run) :
          /\ n \in Names(all_must_run)
          /\ n \notin Names(all_should_run)

\* the test names the changes of the batch select
SelectedBy(k) == Names(prs_results[k].must_run) \cup Names(prs_results[k].should_run)

\* the first change in input order that selects name n
FirstSelecting(n) ==
    CHOOSE k \in 1..Len(prs_results) :
        /\ n \in SelectedBy(k)
        /\ \A j \in 1..(k - 1) : n \notin SelectedBy(j)

Listings(name) ==
    { p \in UNION { { << t, i >> : i \in 1..Len(tag_to_tests[t]) } :
                      t \in tags \cap DOMAIN tag_to_tests } :
        tag_to_tests[p[1]][p[2]].name = name }

IndexedUnderMatched ==
    UNION { Names(tag_to_tests[t]) : t \in tags \cap DOMAIN tag_to_tests }

\* C11 as stated (SpecSelect): when is_critical is true, every test case
\* indexed under a matched tag ends in must_run with score 10, however many
\* matched tags list it.
C11_AsStated ==
    (phase = "selected" /\ is_critical) =>
        \A n \in IndexedUnderMatched :
            \E i \in 1..Len(must_run) :
                /\ must_run[i].name = n
                /\ must_run[i].match_score = 10

\* C11 amended (SpecSelect): when is_critical is true, every test case
\* indexed under a matched tag ends in must_run with priority must_run, and
\* its final score is 10 plus one for each listing of it under the matched
\* tags after the first (10 exactly when it is listed once).
C11_CriticalAllMustRun ==
    (phase = "selected" /\ is_critical) =>
        /\ should_run = << >>
        /\ \A n \in IndexedUnderMatched :
              \E i \in 1..Len(must_run) :
                  /\ must_run[i].name = n
                  /\ must_run[i].priority = "must_run"
                  /\ must_run[i].match_score = 10 + Cardinality(Listings(n)) - 1

\* C11 witness: a finished critical selection with one test case listed
\* once (score 10) and one listed under two matched tags (score 11).
C11_Witness ==
    /\ phase = "selected"
    /\ is_critical
    /\ \E i, j \in 1..Len(must_run) :
          /\ must_run[i].match_score = 10
          /\ must_run[j].match_score = 11
          /\ Len(must_run[j].matched_tags) = 2
          /\ must_run[j].matched_tags[1] # must_run[j].matched_tags[2]

\* C12 (SpecSelect): at every point of a select_tests_by_tags run and at its
\* return, must_run and should_run share no test name and no test name
\* occurs twice in either, for every TagIndex, also one that lists a name
\* under several tags or several times under one tag.
C12_BucketsDisjointNoDuplicates ==
    /\ Names(must_run) \cap Names(should_run) = {}
    /\ Injective(NameList(must_run))
    /\ Injective(NameList(should_run))

\* C12 witness: the run has returned, a matched tag lists one name twice,
\* the same name is listed under a second matched tag, and the name is
\* selected.
C12_Witness ==
    /\ phase = "selected"
    /\ \E t, u \in tags \cap DOMAIN tag_to_tests :
          \E i, j \in 1..Len(tag_to_tests[t]) :
              /\ i # j
              /\ t # u
              /\ tag_to_tests[t][i].name = tag_to_tests[t][j].name
              /\ tag_to_tests[t][i].name \in Names(tag_to_tests[u])
              /\ tag_to_tests[t][i].name \in Names(must_run)

\* every reordering of a list
Reorderings(s) ==
    { [i \in 1..Len(s) |-> s[f[i]]] :
        f \in { g \in [1..Len(s) -> 1..Len(s)] :
                  \A i, j \in 1..Len(s) : g[i] = g[j] => i = j } }

\* the tags some rule of the table lists
RuleTableTags ==
    UNION { Range(mapping_rules.path_to_tags[j].tags) :
              j \in 1..Len(mapping_rules.path_to_tags) }

\* C20 (SpecClassify): for every change that is not docs-only, the matched
\* tags are exactly the tags, other than "e2e", that some rule matching some
\* changed file lists; the classifier returns the same for every reordering
\* of the rules and for every reordering of the changed files (the rule
\* tables and the changes checked contain every reordering of each, so the
\* two together cover reordering both); a file matching no rule adds nothing
\* and the classifier still returns.
C20_MatchedTagsAreUnion ==
    (phase = "classified" /\ ~tag_result.is_docs_only) =>
        /\ tag_result.tags = { t \in RuleTableTags : RuleAdds(t) } \ { "e2e" }
        /\ \A rs \in Reorderings(mapping_rules.path_to_tags) :
              map_files_to_tags([mapping_rules EXCEPT !.path_to_tags = rs],
                                changed_files) = tag_result
        /\ \A fs \in Reorderings(changed_files) :
              map_files_to_tags(mapping_rules, fs) = tag_result

\* C20 witness: a classified change that is not docs-only, with one file
\* that two rules with different tags match and one file that no rule
\* matches; the tags of both rules are returned.
C20_Witness ==
    /\ phase = "classified"
    /\ ~tag_result.is_docs_only
    /\ Len(mapping_rules.path_to_tags) = 2
    /\ \E i, k \in 1..Len(changed_files) :
          /\ \A j \in 1..2 :
                re_search(mapping_rules.path_to_tags[j].pattern, changed_files[i])
          /\ \A j \in 1..2 :
                ~re_search(mapping_rules.path_to_tags[j].pattern, changed_files[k])
    /\ Range(mapping_rules.path_to_tags[1].tags) #
         Range(mapping_rules.path_to_tags[2].tags)
    /\ tag_result.tags = RuleTableTags \ { "e2e" }
    /\ tag_result.tags # {}

\* the run has left run_single_pr or run_multiple_prs
RunOver == phase \in { "main_return", "main_except", "exited" }

\* C13 (SpecRun): in single and batch runs, once the temporary working
\* directory exists, the run does not leave run_single_pr or
\* run_multiple_prs, by return or by exception, with the directory still
\* there: it is deleted before the process ends, whichever step ended the
\* run.
C13_WorkDirDeletedOnEveryExit ==
    RunOver => work_dir \in { "none", "deleted" }

\* C13 witness: a batch run that cloned and indexed, wrote its report, made
\* the trigger call, which failed, and ended with the directory deleted.
C13_Witness ==
    /\ phase = "exited"
    /\ mode = "batch"
    /\ repo_path
    /\ report_file # NoReport
    /\ error = "trigger"
    /\ work_dir = "deleted"

\* the components the changes of the run resolve to
RunComponents == { prs_info[i].component : i \in 1..Len(prs_info) }

\* C14 (SpecRun): a batch whose changes resolve to more than one component,
\* or of which one resolves to the unknown component, fails as a whole: no
\* working directory, clone, mapping, selection, report or trigger call for
\* any of its changes, an error, and exit status 1.
C14_NoPartialBatch ==
    ( /\ mode = "batch"
      /\ Cardinality(RunComponents) > 1 \/ "unknown" \in RunComponents ) =>
        /\ work_dir = "none"
        /\ ~repo_path
        /\ tag_to_tests = EmptyIndex
        /\ prs_results = << >>
        /\ all_must_run = << >> /\ all_should_run = << >>
        /\ report_file = NoReport
        /\ post_calls = 0
        /\ phase \in { "main", "main_except", "exited" }
        /\ phase # "main" => error # "none"
        /\ phase = "exited" => exit_status = 1

\* C14 witness: a batch whose first change is of a known component and
\* whose second is of another one has ended with status 1; so has a batch
\* of changes of the unknown component only.
C14_Witness ==
    /\ phase = "exited"
    /\ mode = "batch"
    /\ exit_status = 1
    /\ Len(prs_info) = 2
    /\ prs_info[1].component = "grc"
    /\ prs_info[2].component = "global-hub"
    /\ error = "ValueError: different components"

\* the report the run writes for its selection
RunReport ==
    [kind  |-> mode,
     tags  |-> IF mode = "single" THEN tags ELSE all_selected_tags,
     tests |-> NameList(IF mode = "single" THEN must_run \o should_run
                        ELSE all_selected_tests),
     jenkins_tags |->
         ReportJenkinsTags(mode, component, RunSelectedTags, RunSelectedTests)]

\* the selection result of the run
RunSelection ==
    << tags, must_run, should_run, all_selected_tags, all_must_run,
       all_should_run, all_selected_tests >>

\* once the trigger call is made: the report is the report of the selection,
\* and a failed call ends the run with status 1
C15_State ==
    (output_dir /\ trigger_jenkins /\ post_calls > 0) =>
        /\ report_file = RunReport
        /\ error = "trigger" => phase \in { "r_finally", "main_except", "exited" }
        /\ (error = "trigger" /\ phase = "exited") => exit_status = 1

\* the step that makes the trigger call finds the report written and leaves
\* it and the selection alone
C15_Step ==
    (output_dir /\ trigger_jenkins /\ phase = "r_reported") =>
        /\ report_file' = report_file
        /\ report_file = RunReport
        /\ RunSelection' = RunSelection

\* no step after the trigger call changes the report or the selection
C15_StepAfter ==
    (output_dir /\ post_calls > 0) =>
        /\ report_file' = report_file
        /\ RunSelection' = RunSelection

\* C15 (SpecRun): in a run with an output directory and the trigger flag,
\* the report of the selection is on disk when the trigger call is made;
\* when the call fails the run ends with an error and exit status 1; and
\* from the trigger call on, neither the report nor the selection result
\* changes.
C15_ReportBeforeTriggerAndKept ==
    []C15_State /\ [][C15_Step /\ C15_StepAfter]_vars

\* C15 witness: the trigger call of a run with an output directory failed,
\* the process has ended with status 1, and the report of the selected
\* tests is on disk.
C15_Witness ==
    /\ phase = "exited"
    /\ output_dir
    /\ error = "trigger"
    /\ exit_status = 1
    /\ post_calls = 1
    /\ report_file = RunReport
    /\ report_file.tests # << >>

\* the override gives TEST_TAGS the value 'auto'
OverrideAsksAuto ==
    /\ \E i \in 1..Len(jenkins_params) :
          jenkins_params[i] = Item("TEST_TAGS", "auto")
    /\ \A i, j \in 1..Len(jenkins_params) :
          ( /\ jenkins_params[i] = Item("TEST_TAGS", "auto")
            /\ jenkins_params[j].colon
            /\ jenkins_params[j].key = "TEST_TAGS" ) => j <= i

\* the override names TEST_TAGS
OverrideNamesTestTags ==
    \E i \in 1..Len(jenkins_params) :
        jenkins_params[i].colon /\ jenkins_params[i].key = "TEST_TAGS"

\* C16 as stated (SpecRun): whenever a trigger call is made, its parameters
\* carry the computed tag expression, for every component and every
\* override.  It fails for a component other than global-hub when the
\* override is absent, does not name TEST_TAGS or gives it a value other
\* than 'auto'.
C16_AsStated ==
    post_calls > 0 =>
        /\ "TEST_TAGS" \in DOMAIN parameters
        /\ parameters["TEST_TAGS"] = tags_ginkgo

\* C16 amended (SpecRun): whenever a trigger call is made for component
\* global-hub, or with an override that gives TEST_TAGS the value 'auto',
\* its parameters carry the computed tag expression as TEST_TAGS; in every
\* other call TEST_TAGS is what the override gives it, or is absent when the
\* override does not name it.
C16_TagExpressionOnAuto ==
    post_calls > 0 =>
        IF component = "global-hub" \/ OverrideAsksAuto
        THEN /\ "TEST_TAGS" \in DOMAIN parameters
             /\ parameters["TEST_TAGS"] = tags_ginkgo
             /\ tags_ginkgo = TagsGinkgo(component, RunSelectedTags,
                                         RunSelectedTests)
        ELSE IF OverrideNamesTestTags
        THEN /\ "TEST_TAGS" \in DOMAIN parameters
             /\ \E i \in 1..Len(jenkins_params) :
                   /\ jenkins_params[i].key = "TEST_TAGS"
                   /\ parameters["TEST_TAGS"] = Text(jenkins_params[i].value)
        ELSE "TEST_TAGS" \notin DOMAIN parameters

\* C16 witness: a trigger call for grc with the override TEST_TAGS:auto
\* carries a computed expression that names a tag.
C16_Witness ==
    /\ post_calls > 0
    /\ component = "grc"
    /\ OverrideAsksAuto
    /\ tags_ginkgo # << >>
    /\ parameters["TEST_TAGS"] = tags_ginkgo

\* the parameters whose name contains PASSWORD, TOKEN or SECRET in any case
SecretNames == { "HUB_PASSWORD", "api_token" }

\* C17 as stated (SpecRun): no line the trigger step prints, whether the
\* call succeeds or fails, spells out the value of a parameter whose name
\* contains PASSWORD, TOKEN or SECRET.
C17_AsStated ==
    \A k \in DOMAIN parameters \cap SecretNames :
        \A i \in 1..Len(trigger_log) :
            \A j \in DOMAIN trigger_log[i].shown :
                trigger_log[i].shown[j] # parameters[k]

\* C18 as stated (SpecRun): a single-change run whose changed files are all
\* documentation, in which no step fails, ends with status 0 and an empty
\* selection, and with an output directory the report is written and lists
\* no selected test.
C18_AsStated ==
    ( /\ phase = "exited"
      /\ mode = "single"
      /\ error = "none"
      /\ prs_info[1].changed_files # << >>
      /\ AllDocs(prs_info[1].changed_files)
      /\ output_dir ) =>
        /\ exit_status = 0
        /\ must_run = << >> /\ should_run = << >>
        /\ report_file # NoReport
        /\ report_file.tests = << >>

\* C19 as stated (SpecRun): a run on a change whose component has a test
\* repository and no entry in FILE_TO_TAG_MAPPINGS gets no classification,
\* selection, report or trigger call, and ends with an error.
C19_AsStated ==
    ( /\ component \in COMPONENT_TEST_REPOS \ FILE_TO_TAG_MAPPINGS ) =>
        /\ phase \notin { "r_mapped", "r_selected", "r_reported" }
        /\ prs_results = << >>
        /\ report_file = NoReport
        /\ post_calls = 0
        /\ phase = "exited" => (exit_status = 1 /\ error # "none")

\* a step of the selector loop that takes the should_run-to-must_run
\* promotion: a name leaves should_run and arrives in must_run
PromotionStep ==
    \E n \in Names(should_run) :
        /\ n \notin Names(should_run')
        /\ n \in Names(must_run')

\* C24 (SpecSelect): for every matched-tag set, TagIndex and is_critical
\* value the selector never places an entry in should_run: should_run is
\* empty in every state of the loop and at return, every selected entry has
\* priority must_run, and no step takes the should_run-to-must_run promotion.
C24_ShouldRunAlwaysEmpty ==
    /\ [](/\ should_run = << >>
          /\ \A i \in 1..Len(must_run) : must_run[i].priority = "must_run")
    /\ [][~PromotionStep]_vars

\* C24 witness: a non-critical run has returned with a test case that was
\* seen again with a score of 2 or more (the condition of the promotion),
\* and should_run is empty.
C24_Witness ==
    /\ phase = "selected"
    /\ ~is_critical
    /\ should_run = << >>
    /\ \E i \in 1..Len(must_run) :
          /\ must_run[i].match_score >= 4
          /\ Len(must_run[i].matched_tags) >= 2

\* some changed path matches some critical_patterns entry of the component
CriticalPathChanged ==
    \E i \in 1..Len(changed_files) :
        \E j \in 1..Len(mapping_rules.critical_patterns) :
            re_search(mapping_rules.critical_patterns[j], changed_files[i])

\* the change has a path and every path of it is a documentation path
DocsOnlyChange == changed_files # << >> /\ AllDocs(changed_files)

\* C25 (SpecClassify): for a change that is not docs-only, is_critical is
\* true exactly when some changed path matches some critical pattern; for a
\* docs-only change the classifier returns early with is_critical false,
\* also when a changed path matches a critical pattern.
C25_CriticalIffPatternUnlessDocsOnly ==
    phase = "classified" =>
        /\ tag_result.is_docs_only = DocsOnlyChange
        /\ ~DocsOnlyChange => (tag_result.is_critical <=> CriticalPathChanged)
        /\ DocsOnlyChange => ~tag_result.is_critical

\* C25 witness: a classified docs-only change one of whose paths matches a
\* critical pattern, reported as not critical.
C25_Witness ==
    /\ phase = "classified"
    /\ DocsOnlyChange
    /\ CriticalPathChanged
    /\ ~tag_result.is_critical

\* C27 (SpecSelect): at return of select_tests_by_tags the test names of
\* must_run and should_run together are exactly the names of the test cases
\* the TagIndex lists under at least one matched tag; a matched tag that is
\* no key of the TagIndex adds no name, and the run returns all the same.
C27_SelectedNamesAreIndexedUnderMatched ==
    phase = "selected" =>
        /\ Names(must_run) \cup Names(should_run) = IndexedUnderMatched
        /\ test_names_seen = IndexedUnderMatched

\* C27 witness: a returned run whose matched tags hold a tag absent from the
\* TagIndex next to a tag that lists test cases, with an indexed test case
\* left out because no matched tag lists it.
C27_Witness ==
    /\ phase = "selected"
    /\ tags \ DOMAIN tag_to_tests # {}
    /\ must_run # << >>
    /\ \E t \in DOMAIN tag_to_tests :
          Names(tag_to_tests[t]) \ Names(must_run) # {}

\* the test names of one change's selection
SelectionNames(result) == Names(result.must_run) \cup Names(result.should_run)

\* the test names of the merge of a list of selections
MergedNames(results) ==
    LET m == MergeAll(MergeStart, results)
    IN  Names(m.must) \cup Names(m.should)

\* C29 (SpecMerge): the test names of the batch-merged selection are the
\* union of the test names of the per-change selections, and the merge of
\* every reordering of the changes has the same test names.
C29_MergedNamesAreUnionAnyOrder ==
    phase = "merged" =>
        /\ Names(all_selected_tests) =
              UNION { SelectionNames(prs_results[i]) : i \in 1..Len(prs_results) }
        /\ batch_names_seen = Names(all_selected_tests)
        /\ \A r \in Reorderings(prs_results) :
              MergedNames(r) = Names(all_selected_tests)

\* C29 witness: a merged batch of two changes that share a test name in
\* different buckets, each with a name the other lacks or the shared one
\* only, whose merge keeps a different entry for the shared name when the
\* changes are swapped.
C29_Witness ==
    /\ phase = "merged"
    /\ Len(prs_results) = 2
    /\ SelectionNames(prs_results[1]) \cap SelectionNames(prs_results[2]) # {}
    /\ SelectionNames(prs_results[1]) # SelectionNames(prs_results[2])
    /\ LET swapped == MergeAll(MergeStart, << prs_results[2], prs_results[1] >>)
       IN  /\ Names(swapped.must) # Names(all_must_run)
           /\ Names(swapped.must) \cup Names(swapped.should)
                 = Names(all_selected_tests)

\* the selected test cases that carry tag t
CoveredBy(t) ==
    { selected_tests[i].name : i \in { j \in 1..Len(selected_tests) :
                                         t \in Range(selected_tests[j].tags) } }

\* the functional tags the selected test cases carry
SelectedFunctionalTags ==
    { t \in UNION { Range(selected_tests[i].tags) : i \in 1..Len(selected_tests) } :
        ~isdigit(t) }

\* the tags accepted when the tags of `order` take their turn one after the
\* other and a tag is accepted exactly when it covers at least minTests
\* selected test cases no accepted tag covers
RECURSIVE AcceptedInOrder(_, _, _, _)
AcceptedInOrder(order, accepted, covered, minTests) ==
    IF order = << >> THEN accepted
    ELSE LET t == Head(order)
         IN  IF Cardinality(CoveredBy(t) \ covered) >= minTests
             THEN AcceptedInOrder(Tail(order), accepted \cup { t },
                                  covered \cup CoveredBy(t), minTests)
             ELSE AcceptedInOrder(Tail(order), accepted, covered, minTests)

\* the orders that take the functional tags by non-increasing number of
\* selected test cases covered
CoverageOrders ==
    { o \in Reorderings(Filter(TagOrder, SelectedFunctionalTags)) :
        \A i, j \in 1..Len(o) :
            i < j => Cardinality(CoveredBy(o[i])) >= Cardinality(CoveredBy(o[j])) }

\* C26 as stated (SpecOptimize): the functional tags of the optimizer's
\* output are the tags accepted when the functional tags of the selected
\* test cases are taken in non-increasing order of the number of selected
\* test cases they cover and a tag is accepted if and only if it covers at
\* least min_tests_per_tag selected test cases not covered by an accepted
\* tag; and when a functional tag covers all N >= min_tests_per_tag selected
\* test cases the output is one functional tag and no numeric tag.
C26_AsStated ==
    (phase = "optimized" /\ component = "grc") =>
        /\ \E o \in CoverageOrders :
              { t \in ExprTags(optimized) : ~isdigit(t) }
                 = AcceptedInOrder(o, {}, {}, min_tests_per_tag)
        /\ (/\ Len(selected_tests) >= min_tests_per_tag
            /\ \E t \in SelectedFunctionalTags :
                  CoveredBy(t) = Names(selected_tests))
           => /\ Cardinality({ t \in ExprTags(optimized) : ~isdigit(t) }) = 1
              /\ { t \in ExprTags(optimized) : isdigit(t) } = {}

\* the files of the run whose read succeeds, in glob order
ReadableFiles == SelectSeq(test_files, LAMBDA f : f.readable)

\* the files of the run without the file at position k
WithoutFile(k) ==
    SubSeq(test_files, 1, k - 1) \o SubSeq(test_files, k + 1, Len(test_files))

\* C21 (SpecIndex): a file whose extraction fails does not abort indexing;
\* the step on it changes no index entry and moves on to the next file, and
\* the index returned is the index of the same run without that file: every
\* other file contributes the entries it contributes when the failing file
\* is absent.
C21_State ==
    phase = "indexed" =>
        /\ file_pos = Len(test_files) + 1
        /\ \A k \in 1..Len(test_files) :
              ~test_files[k].readable =>
                 /\ tag_to_tests = extract_test_tags(WithoutFile(k)).tag_to_tests
                 /\ all_tags = extract_test_tags(WithoutFile(k)).all_tags
                 /\ \E i \in 1..Len(index_log) :
                       index_log[i] = test_files[k].path
        /\ tag_to_tests = extract_test_tags(ReadableFiles).tag_to_tests

C21_Step ==
    (/\ phase = "index"
     /\ file_pos <= Len(test_files)
     /\ ~test_files[file_pos].readable)
    => /\ tag_to_tests' = tag_to_tests
       /\ all_tags' = all_tags
       /\ file_pos' = file_pos + 1
       /\ phase' = "index"

\* C21: the property of the returned index and of the failing step together
C21_IndexingToleratesFileFailure == []C21_State /\ [][C21_Step]_vars

\* C21 witness: indexing has returned; the first file failed and is
\* reported, the file after it was read and its entries are in the index.
C21_Witness ==
    /\ phase = "indexed"
    /\ Len(test_files) = 2
    /\ ~test_files[1].readable
    /\ test_files[2].readable
    /\ test_files[2].describes # << >>
    /\ index_log = << test_files[1].path >>
    /\ tag_to_tests # EmptyIndex

\* the test names the index lists
IndexedNames == UNION { Names(tag_to_tests[t]) : t \in DOMAIN tag_to_tests }

\* the positions of the list of tag t that hold the test case named n
ListedAt(t, n) ==
    { i \in 1..Len(tag_to_tests[t]) : tag_to_tests[t][i].name = n }

\* the tag set of the test case named n: the tags of its test_info dicts
TagSetOf(n) ==
    UNION { UNION { Range(tag_to_tests[t][i].tags) : i \in ListedAt(t, n) } :
              t \in DOMAIN tag_to_tests }

\* C22 as stated (SpecIndex): when extract_test_tags returns, for every tag
\* t and every test case c, c is listed under t if and only if t is in the
\* tag set of c, and it is then listed exactly once under t: a test case
\* with k distinct tags has exactly k index entries.  The files of a run
\* declare every test name once.
C22_AsStated ==
    phase = "indexed" =>
        \A n \in IndexedNames :
            /\ \A t \in DOMAIN tag_to_tests :
                  /\ (ListedAt(t, n) # {}) <=> (t \in TagSetOf(n))
                  /\ Cardinality(ListedAt(t, n)) <= 1
            /\ Cardinality(UNION { { << t, i >> : i \in ListedAt(t, n) } :
                                     t \in DOMAIN tag_to_tests })
                  = Cardinality(TagSetOf(n))

\* C28 as stated (SpecSelect): at return of select_tests_by_tags every
\* entry's matched_tags holds no tag twice and only matched tags that list
\* the test case, and its score is base + (number of matched_tags - 1) with
\* base 3 for a non-critical change (10 for a critical one): one point for
\* every further distinct tag, none for the same tag again.
C28_AsStated ==
    phase = "selected" =>
        \A i \in 1..Len(must_run \o should_run) :
            LET e == (must_run \o should_run)[i]
            IN  /\ Injective(e.matched_tags)
                /\ \A t \in Range(e.matched_tags) :
                      /\ t \in tags \cap DOMAIN tag_to_tests
                      /\ e.name \in Names(tag_to_tests[t])
                /\ e.match_score =
                      (IF is_critical THEN 10 ELSE 3)
                         + Cardinality(Range(e.matched_tags)) - 1

\* C23 as stated (SpecRun): in every run that has written a report and made
\* a trigger call, single or batch and for every component, the tag
\* expression shown in the report names the same set of tags as the tag
\* expression computed for the trigger call.
C23_AsStated ==
    (report_file.kind # "none" /\ post_calls > 0) =>
        ExprTags(report_file.jenkins_tags) = ExprTags(tags_ginkgo)

====
